---- MODULE Spec2Model ----
(***************************************************************************)
(* A state-machine model of two mechanisms of the godot-rust binding       *)
(* layer:                                                                  *)
(*   - the owned-RID (RAII) wrappers generated by impl_owned_rid! and the  *)
(*     hand-written ones (godot-core/src/obj/raii.rs, rendering/,          *)
(*     servers/);                                                          *)
(*   - VarDictionary and its iterators                                     *)
(*     (godot-core/src/builtin/collections/dictionary.rs).                 *)
(* The engine behind the FFI (the services' handle tables, the dictionary  *)
(* storage) is modelled by the operators whose names start with Engine.    *)
(***************************************************************************)
EXTENDS Integers, Sequences, FiniteSets, TLC

(***************************************************************************)
(* Bounds of the model.                                                    *)
(***************************************************************************)
\* Handles a service can have allocated at once (its table has MaxRid slots).
MaxRid == 2
\* Wrapper objects constructed in one run.
MaxWrappers == 3
\* Dictionary keys are the variants 0..NumKeys (0 is the nil variant).
NumKeys == 1
\* Elements one iterator may yield before it is dropped.
MaxYield == 3
\* Threads running at the same time.
NumThreads == 2
\* External constructor lookups counted per type tag.
MaxLookups == 2
\* MethodInfo structs handed to the engine in one run.
MaxInfos == 2
\* Arguments, and default arguments, of one method.
MaxArgs == 2
MaxPairs == 2
MaxEntries == 3
MaxValue == 3

VARIABLES
    alloc,          \* alloc[s]: the handles service s currently has allocated
    wrappers,       \* wrappers[w]: the wrapper object w (state, rid, server)
    issuer,         \* issuer[w]: the service whose create call produced w's handle
    created,        \* created[w]: the handle that create call returned
    freeLog,        \* freeLog[w]: the release calls issued by dropping w
    lastCall,       \* the call a forwarding method made last, if it was the last step
    rawFreed,       \* TRUE once a raw free hit a handle held by a live wrapper
    quiet,          \* the wrapper created last, while no other call has allocated or
                    \* released at its service since (0: none)
    safeguards,     \* the build's safeguard level: "balanced" or "disengaged"
    cells,          \* cells[c]: the engine's dictionary data c (entries, read_only)
    handle,         \* handle[h]: the data the VarDictionary variable h refers to (0: none)
    origin,         \* how variable "c" was last produced: "none", "clone", "duplicate"
    ret,            \* the last dictionary call that returns a result, and its result
    it,             \* the iterator object (DictionaryIter / IntoIter fields)
    yielded,        \* elements the iterator has yielded so far
    mutated,        \* TRUE once the iterated dictionary changed under the iterator
    constructors,   \* CONSTRUCTORS: the cached from-variant constructor of each type tag
    lockHolder,     \* the thread holding the lock of CONSTRUCTORS (0: nobody)
    lookups,        \* lookups[tag]: external constructor lookups made for tag
    conv,           \* conv[t]: the relaxed conversion thread t is executing
    heap,           \* the allocations leaked by into_owned_* calls, by position
    minfo,          \* minfo[i]: the i-th sys::GDExtensionMethodInfo handed out
    held,           \* the Variant the program holds
    res,            \* the last conversion of held: its host type and outcome
    object,         \* the engine's object: properties, metadata and scene tree
    acc,            \* the last typed accessor call on object and its outcome
    thr,            \* thr[t]: where thread t is in creating a canvas item, and its handle
    expr,           \* the last Variant expression evaluated: operands and outcome
    fop             \* the last functional operation: dictionary, callable, result, invocations

ridVars == <<alloc, wrappers, issuer, created, freeLog, lastCall, rawFreed, quiet>>
dictVars == <<safeguards, cells, handle, origin, ret, it, yielded, mutated>>
convVars == <<constructors, lockHolder, lookups, conv>>
infoVars == <<heap, minfo>>
threadVars == <<thr>>
valVars == <<held, res>>
objVars == <<object, acc>>
exprVars == <<expr>>
funcVars == <<fop>>

\* What the operations on owning wrappers, and those on dictionaries, leave alone.
ridFrame == <<dictVars, convVars, infoVars, threadVars, valVars, objVars, exprVars, funcVars>>
dictFrame == <<ridVars, convVars, infoVars, threadVars, valVars, objVars, exprVars, funcVars>>
convFrame == <<ridVars, dictVars, infoVars, threadVars, valVars, objVars, exprVars, funcVars>>
infoFrame == <<ridVars, dictVars, convVars, threadVars, valVars, objVars, exprVars, funcVars>>
threadFrame == <<dictVars, convVars, infoVars, valVars, objVars, exprVars, funcVars>>
valFrame == <<ridVars, dictVars, convVars, infoVars, threadVars, objVars, exprVars, funcVars>>
objFrame == <<ridVars, dictVars, convVars, infoVars, threadVars, valVars, exprVars, funcVars>>
exprFrame == <<ridVars, dictVars, convVars, infoVars, threadVars, valVars, objVars, funcVars>>
funcFrame == <<ridVars, dictVars, convVars, infoVars, threadVars, valVars, objVars, exprVars>>

(***************************************************************************)
(* Services.  RenderingServer is reached through its process-wide          *)
(* singleton; TextServer and RenderingDevice are instance services.        *)
(***************************************************************************)
RenderingServer == "RenderingServer"
TextServers == {"TextServer#1"}
RenderingDevices == {"RenderingDevice#1", "RenderingDevice#2"}
Servers == {RenderingServer} \cup TextServers \cup RenderingDevices

Rids == 0..MaxRid
Wrappers == 1..MaxWrappers

\* Rid::Invalid is the handle with id 0; every other id is valid.
is_valid(rid) == rid # 0

NoCall == [op |-> "none", server |-> "none", rid |-> 0]
Uncreated == [st |-> "Uncreated", shape |-> "none", rid |-> 0, server |-> "none"]

(***************************************************************************)
(* The engine side of a service: a table of allocated handles.  A create   *)
(* call returns the lowest free handle (freed handles are recycled), or    *)
(* the invalid handle when the call fails or the table is full.  free_rid  *)
(* of a handle the table does not hold is reported and changes nothing.    *)
(***************************************************************************)
EngineFree(s) == (1..MaxRid) \ alloc[s]

EngineLowestFree(s) == CHOOSE r \in EngineFree(s) : \A q \in EngineFree(s) : r <= q

EngineCreateResults(s) ==
    IF EngineFree(s) = {} THEN {0} ELSE {0, EngineLowestFree(s)}

\* An engine that hands out a handle without marking it allocated.
EngineAfterCreate_forgets(s, rid) == alloc

EngineAfterCreate(s, rid) ==
    IF is_valid(rid) THEN [alloc EXCEPT ![s] = @ \cup {rid}] ELSE alloc

EngineAfterFree(s, rid) == [alloc EXCEPT ![s] = @ \ {rid}]

(***************************************************************************)
(* Wrapper construction.                                                   *)
(***************************************************************************)
\* The next wrapper object to be constructed.
NextWrapper == CHOOSE w \in Wrappers :
    /\ wrappers[w].st = "Uncreated"
    /\ \A v \in Wrappers : wrappers[v].st = "Uncreated" => w <= v

CanConstruct == \E w \in Wrappers : wrappers[w].st = "Uncreated"

\* Self { rid } of the singleton arm.
SingletonWrapper(rid) ==
    [st |-> "Valid", shape |-> "singleton", rid |-> rid, server |-> "none"]

\* Self { rid, server } of the instance arm.
from_rid(rid, server) ==
    [st |-> "Valid", shape |-> "instance", rid |-> rid, server |-> server]

\* Bookkeeping shared by the constructors: wrapper object w now exists.
Constructed(w, obj, s, rid) ==
    /\ wrappers' = [wrappers EXCEPT ![w] = obj]
    /\ alloc' = EngineAfterCreate(s, rid)
    /\ issuer' = [issuer EXCEPT ![w] = s]
    /\ created' = [created EXCEPT ![w] = rid]
    /\ lastCall' = NoCall
    /\ quiet' = IF is_valid(rid) THEN w ELSE 0
    /\ UNCHANGED <<freeLog, rawFreed>>
    /\ UNCHANGED ridFrame

\* OwnedCanvasItem::new(): RenderingServer::singleton().canvas_item_create().
OwnedCanvasItem_new ==
    /\ CanConstruct
    /\ \E rid \in EngineCreateResults(RenderingServer) :
          Constructed(NextWrapper, [st |-> "Valid", shape |-> "canvas_item",
                                    rid |-> rid, server |-> "none"],
                      RenderingServer, rid)

\* OwnedTexture::new_placeholder(): texture_2d_placeholder_create() of the singleton.
OwnedTexture_new_placeholder ==
    /\ CanConstruct
    /\ \E rid \in EngineCreateResults(RenderingServer) :
          Constructed(NextWrapper, SingletonWrapper(rid), RenderingServer, rid)

\* OwnedFont::new(server): server.clone().create_font().
OwnedFont_new(server) ==
    /\ CanConstruct
    /\ \E rid \in EngineCreateResults(server) :
          Constructed(NextWrapper, [st |-> "Valid", shape |-> "instance",
                                    rid |-> rid, server |-> server], server, rid)

\* TextServer::create_font_owned(): gd.create_font(), then OwnedFont::from_rid.
create_font_owned(server) ==
    /\ CanConstruct
    /\ \E rid \in EngineCreateResults(server) :
          Constructed(NextWrapper, from_rid(rid, server), server, rid)

\* RenderingDevice::compute_pipeline_create_owned(shader).
compute_pipeline_create_owned(server) ==
    /\ CanConstruct
    /\ \E rid \in EngineCreateResults(server) :
          Constructed(NextWrapper, from_rid(rid, server), server, rid)

(***************************************************************************)
(* Accessors and forwarding methods.                                       *)
(***************************************************************************)
\* rid(&self): copy-out of the handle.
rid_of(w) == wrappers[w].rid

\* A set_parent that stores its argument in self.rid (a Valid -> Valid step).
set_parent_reassign(w, parent) ==
    /\ wrappers[w].st = "Valid"
    /\ wrappers[w].shape = "canvas_item"
    /\ wrappers' = [wrappers EXCEPT ![w].rid = parent]
    /\ lastCall' = [op |-> "canvas_item_set_parent", server |-> RenderingServer,
                    rid |-> parent]
    /\ UNCHANGED <<alloc, issuer, created, freeLog, rawFreed, quiet>>
    /\ UNCHANGED ridFrame

\* OwnedCanvasItem::set_parent(&mut self, parent): forwards (self.rid, parent).
set_parent(w, parent) ==
    /\ wrappers[w].st = "Valid"
    /\ wrappers[w].shape = "canvas_item"
    /\ lastCall' = [op |-> "canvas_item_set_parent", server |-> RenderingServer,
                    rid |-> rid_of(w)]
    /\ UNCHANGED <<alloc, wrappers, issuer, created, freeLog, rawFreed, quiet>>
    /\ UNCHANGED ridFrame

\* OwnedRdBuffer::get_native_handle(&self): self.server.clone().<call>(self.rid).
get_native_handle(w) ==
    /\ wrappers[w].st = "Valid"
    /\ wrappers[w].shape = "instance"
    /\ lastCall' = [op |-> "get_native_handle", server |-> wrappers[w].server,
                    rid |-> rid_of(w)]
    /\ UNCHANGED <<alloc, wrappers, issuer, created, freeLog, rawFreed, quiet>>
    /\ UNCHANGED ridFrame

(***************************************************************************)
(* Drop.                                                                   *)
(***************************************************************************)
\* A release call that never reaches the service (the wrapper forgets to free).
drop_singleton_leak(obj) == << >>

\* Drop::drop of the singleton arm: the release calls it issues.
drop_singleton(obj) ==
    IF is_valid(obj.rid)
    THEN << [server |-> RenderingServer, rid |-> obj.rid] >>
    ELSE << >>

\* A drop that releases without the is_valid guard.
drop_singleton_unguarded(obj) == << [server |-> RenderingServer, rid |-> obj.rid] >>

\* Drop::drop of OwnedCanvasItem (hand-written, same shape as the singleton arm).
drop_canvas_item(obj) ==
    IF is_valid(obj.rid)
    THEN << [server |-> RenderingServer, rid |-> obj.rid] >>
    ELSE << >>

\* A drop of the instance arm whose release call is never made.
drop_instance_leak(obj) == << >>

\* A drop of the instance arm that releases through the singleton service.
drop_instance_via_singleton(obj) ==
    IF is_valid(obj.rid)
    THEN << [server |-> RenderingServer, rid |-> obj.rid] >>
    ELSE << >>

\* Drop::drop of the instance arm: self.server.clone().free_rid(self.rid).
drop_instance(obj) ==
    IF is_valid(obj.rid)
    THEN << [server |-> obj.server, rid |-> obj.rid] >>
    ELSE << >>

\* The release calls dropping a wrapper object issues, by its kind.
DropCalls(obj) ==
    CASE obj.shape = "instance" -> drop_instance(obj)
      [] obj.shape = "singleton" -> drop_singleton(obj)
      [] OTHER -> drop_canvas_item(obj)

RECURSIVE AfterCalls(_, _)
AfterCalls(a, calls) ==
    IF calls = << >> THEN a
    ELSE AfterCalls([a EXCEPT ![Head(calls).server] = @ \ {Head(calls).rid}],
                    Tail(calls))

\* Does one of the release calls reach the service of the wrapper created last?
Disturbs(calls) == \E i \in 1..Len(calls) : calls[i].server = issuer[quiet]

drop(w) ==
    /\ wrappers[w].st = "Valid"
    /\ LET calls == DropCalls(wrappers[w]) IN
          /\ freeLog' = [freeLog EXCEPT ![w] = @ \o calls]
          /\ alloc' = AfterCalls(alloc, calls)
          /\ lastCall' = NoCall
          /\ quiet' = IF quiet # 0 /\ quiet # w /\ Disturbs(calls) THEN 0 ELSE quiet
    /\ wrappers' = [wrappers EXCEPT ![w].st = "Released"]
    /\ UNCHANGED <<issuer, created, rawFreed>>
    /\ UNCHANGED ridFrame

\* RenderingDevice::free_rid_owned(rid): self.free_rid(rid), for any handle.
free_rid_owned(server, rid) ==
    /\ alloc' = EngineAfterFree(server, rid)
    /\ lastCall' = NoCall
    /\ rawFreed' = (rawFreed \/ \E w \in Wrappers :
                       /\ wrappers[w].st = "Valid"
                       /\ wrappers[w].shape = "instance"
                       /\ wrappers[w].server = server
                       /\ is_valid(rid)
                       /\ wrappers[w].rid = rid)
    /\ quiet' = IF quiet # 0 /\ issuer[quiet] = server /\ rid \in alloc[server]
                 THEN 0 ELSE quiet
    /\ UNCHANGED <<wrappers, issuer, created, freeLog>>
    /\ UNCHANGED ridFrame

InitRid ==
    /\ alloc = [s \in Servers |-> {}]
    /\ wrappers = [w \in Wrappers |-> Uncreated]
    /\ issuer = [w \in Wrappers |-> "none"]
    /\ created = [w \in Wrappers |-> 0]
    /\ freeLog = [w \in Wrappers |-> << >>]
    /\ lastCall = NoCall
    /\ rawFreed = FALSE
    /\ quiet = 0

NextRid ==
    \/ OwnedCanvasItem_new
    \/ OwnedTexture_new_placeholder
    \/ \E s \in TextServers : OwnedFont_new(s)
    \/ \E s \in TextServers : create_font_owned(s)
    \/ \E s \in RenderingDevices : compute_pipeline_create_owned(s)
    \/ \E w \in Wrappers, parent \in Rids : set_parent(w, parent)
    \/ \E w \in Wrappers : get_native_handle(w)
    \/ \E w \in Wrappers : drop(w)
    \/ \E s \in RenderingDevices, rid \in Rids : free_rid_owned(s, rid)

(***************************************************************************)
(* Several threads creating owned canvas items (multi_thread_test).  A     *)
(* thread first calls canvas_item_create() on the rendering service, which *)
(* serves one call at a time, and then wraps the handle it got.            *)
(***************************************************************************)
Threads == 1..NumThreads

NoLocal == [pc |-> "idle", rid |-> 0]

Pending == {t \in Threads : thr[t].pc = "created"}

\* let rid = RenderingServer::singleton().canvas_item_create();  on thread t
thread_canvas_item_create(t) ==
    /\ thr[t].pc = "idle"
    /\ Cardinality({w \in Wrappers : wrappers[w].st = "Uncreated"}) > Cardinality(Pending)
    /\ \E rid \in EngineCreateResults(RenderingServer) :
          /\ alloc' = EngineAfterCreate(RenderingServer, rid)
          /\ thr' = [thr EXCEPT ![t] = [pc |-> "created", rid |-> rid]]
    /\ lastCall' = NoCall
    /\ quiet' = 0
    /\ UNCHANGED <<wrappers, issuer, created, freeLog, rawFreed>>
    /\ UNCHANGED threadFrame

\* Self { rid }  on thread t
thread_wrap(t) ==
    /\ thr[t].pc = "created"
    /\ CanConstruct
    /\ wrappers' = [wrappers EXCEPT ![NextWrapper] =
                       [st |-> "Valid", shape |-> "canvas_item",
                        rid |-> thr[t].rid, server |-> "none"]]
    /\ issuer' = [issuer EXCEPT ![NextWrapper] = RenderingServer]
    /\ created' = [created EXCEPT ![NextWrapper] = thr[t].rid]
    /\ thr' = [thr EXCEPT ![t] = NoLocal]
    /\ lastCall' = NoCall
    /\ UNCHANGED <<alloc, freeLog, rawFreed, quiet>>
    /\ UNCHANGED threadFrame

InitThreads == thr = [t \in Threads |-> NoLocal]

NextThreads ==
    \/ \E t \in Threads : thread_canvas_item_create(t)
    \/ \E t \in Threads : thread_wrap(t)
    \/ \E w \in Wrappers : drop(w)

(***************************************************************************)
(* VarDictionary.  The engine keeps a dictionary's data (an ordered list   *)
(* of key/value pairs and a read-only flag); a VarDictionary variable is a *)
(* reference to such data.  Keys and values are variants; NIL is the nil   *)
(* variant.                                                                *)
(***************************************************************************)
NIL == 0
Keys == 0..NumKeys
Values == {NIL, 1}
Handles == {"d", "c"}
Cells == {1, 2}

None == << >>
Some(x) == << x >>


EmptyCell == [entries |-> << >>, read_only |-> FALSE]
NoRet == [op |-> "none", h |-> "none", k |-> NIL, v |-> NIL,
          result |-> None, before |-> None, panicked |-> FALSE]
NoIter == [kind |-> "none", h |-> "none", cell |-> 0, last_key |-> None,
           is_first |-> TRUE, next_idx |-> 0]

\* ---- engine: Dictionary -------------------------------------------------
EngineHas(e, k) == \E i \in 1..Len(e) : e[i][1] = k

EngineIndexOf(e, k) == CHOOSE i \in 1..Len(e) : e[i][1] = k

\* Dictionary.get(key, default)
EngineGet(e, k, default) ==
    IF EngineHas(e, k) THEN e[EngineIndexOf(e, k)][2] ELSE default

\* Dictionary.erase(key)
EngineErase(e, k) ==
    IF EngineHas(e, k)
    THEN LET i == EngineIndexOf(e, k) IN SubSeq(e, 1, i - 1) \o SubSeq(e, i + 1, Len(e))
    ELSE e

\* An operator[] that hands out the stored slot of a read-only dictionary too.
EngineIndexWrite_unchecked(dc, k, v) ==
    IF EngineHas(dc.entries, k)
    THEN [dc EXCEPT !.entries[EngineIndexOf(dc.entries, k)] = <<k, v>>]
    ELSE [dc EXCEPT !.entries = Append(@, <<k, v>>)]

\* dictionary_operator_index(dict, key) followed by a write through the pointer:
\* an existing key keeps its place, a new key is appended; a read-only
\* dictionary hands out a scratch slot and keeps its entries.
EngineIndexWrite(dc, k, v) ==
    IF dc.read_only THEN dc
    ELSE IF EngineHas(dc.entries, k)
         THEN [dc EXCEPT !.entries[EngineIndexOf(dc.entries, k)] = <<k, v>>]
         ELSE [dc EXCEPT !.entries = Append(@, <<k, v>>)]

\* Dictionary.duplicate(false): a new, writable dictionary with the same entries.
EngineDuplicate(dc) == [entries |-> dc.entries, read_only |-> FALSE]

\* variant_iter_init / variant_iter_next on a dictionary: the first key, or the
\* key after `last`; no next key when `last` is no longer in the dictionary.
EngineIterInit(e) ==
    IF Len(e) = 0 THEN [has_next |-> FALSE, valid |-> TRUE, key |-> NIL]
    ELSE [has_next |-> TRUE, valid |-> TRUE, key |-> e[1][1]]

EngineIterNext(e, last) ==
    IF EngineHas(e, last) /\ EngineIndexOf(e, last) < Len(e)
    THEN [has_next |-> TRUE, valid |-> TRUE, key |-> e[EngineIndexOf(e, last) + 1][1]]
    ELSE [has_next |-> FALSE, valid |-> TRUE, key |-> last]

\* ---- VarDictionary: reads -----------------------------------------------
Bound(h) == handle[h] # 0
Data(h) == cells[handle[h]]

contains_key(h, k) == EngineHas(Data(h).entries, k)

get_or_nil(h, k) == EngineGet(Data(h).entries, k, NIL)

\* A get() that tells presence from the value found.
get_by_value(h, k) == IF get_or_nil(h, k) # NIL THEN Some(get_or_nil(h, k)) ELSE None

get(h, k) == IF contains_key(h, k) THEN Some(get_or_nil(h, k)) ELSE None

\* at(): the value, or a panic when the key is missing.
at(h, k) ==
    IF contains_key(h, k)
    THEN [panicked |-> FALSE, value |-> get_or_nil(h, k)]
    ELSE [panicked |-> TRUE, value |-> NIL]

len(h) == Len(Data(h).entries)

is_read_only(h) == Data(h).read_only

\* balanced_ensure_mutable(): TRUE when the call goes on, FALSE when it panics.
balanced_ensure_mutable(h) ==
    ~(safeguards = "balanced" /\ is_read_only(h))

\* ---- VarDictionary: new references --------------------------------------
\* The data a duplicate is stored in: variable "c" is the only holder of cell 2.
DuplicateCell == 2

\* A clone that copies the entries into new data.
clone_copies(h) ==
    [cell |-> DuplicateCell,
     cells |-> [cells EXCEPT ![DuplicateCell] = EngineDuplicate(Data(h))]]

\* Clone::clone: dictionary_construct_copy, a new reference to the same data.
clone(h) ==
    [cell |-> handle[h],
     cells |-> [cells EXCEPT ![DuplicateCell] = EmptyCell]]

\* A duplicate that hands out a reference to the same data.
duplicate_shares(h) ==
    [cell |-> handle[h],
     cells |-> [cells EXCEPT ![DuplicateCell] = EmptyCell]]

\* duplicate_shallow(): as_inner().duplicate(false).
duplicate_shallow(h) ==
    [cell |-> DuplicateCell,
     cells |-> [cells EXCEPT ![DuplicateCell] = EngineDuplicate(Data(h))]]

\* Ghost bookkeeping of the iterator: did the data it walks change?
IterSees(newCells) ==
    mutated' = (mutated \/ (it.kind # "none" /\ newCells[it.cell] # cells[it.cell]))

\* The borrow checker: a variable borrowed by a live iterator cannot be mutated.
NotBorrowed(h) == it.kind = "none" \/ it.h # h

\* let c = d.clone();
Clone ==
    /\ NotBorrowed("c")
    /\ LET r == clone("d") IN
          /\ cells' = r.cells
          /\ handle' = [handle EXCEPT !["c"] = r.cell]
          /\ IterSees(r.cells)
    /\ origin' = "clone"
    /\ ret' = NoRet
    /\ UNCHANGED <<safeguards, it, yielded>>
    /\ UNCHANGED dictFrame

\* let c = d.duplicate_shallow();
DuplicateShallow ==
    /\ NotBorrowed("c")
    /\ LET r == duplicate_shallow("d") IN
          /\ cells' = r.cells
          /\ handle' = [handle EXCEPT !["c"] = r.cell]
          /\ IterSees(r.cells)
    /\ origin' = "duplicate"
    /\ ret' = NoRet
    /\ UNCHANGED <<safeguards, it, yielded>>
    /\ UNCHANGED dictFrame

\* ---- VarDictionary: mutation --------------------------------------------
\* set_inner(): write the value through get_ptr_mut(key).
set_inner(cs, h, k, v) ==
    [cs EXCEPT ![handle[h]] = EngineIndexWrite(cs[handle[h]], k, v)]

\* The outcome of set(key, value): the new data, and whether the call panicked.
set_outcome(h, k, v) ==
    IF balanced_ensure_mutable(h)
    THEN [cells |-> set_inner(cells, h, k, v), panicked |-> FALSE]
    ELSE [cells |-> cells, panicked |-> TRUE]

\* An insert() that reads the "previous" value after writing the new one.
insert_outcome_late_read(h, k, v) ==
    IF balanced_ensure_mutable(h)
    THEN [cells |-> set_inner(cells, h, k, v), panicked |-> FALSE,
          result |-> Some(v)]
    ELSE [cells |-> cells, panicked |-> TRUE, result |-> None]

\* The outcome of insert(key, value): get(key), then set(key, value).
insert_outcome(h, k, v) ==
    IF balanced_ensure_mutable(h)
    THEN [cells |-> set_outcome(h, k, v).cells, panicked |-> FALSE,
          result |-> get(h, k)]
    ELSE [cells |-> cells, panicked |-> TRUE, result |-> None]

set(h, k, v) ==
    /\ Bound(h) /\ NotBorrowed(h)
    /\ LET r == set_outcome(h, k, v) IN
          /\ cells' = r.cells
          /\ IterSees(r.cells)
          /\ ret' = [op |-> "set", h |-> h, k |-> k, v |-> v, result |-> None,
                     before |-> None, panicked |-> r.panicked]
    /\ UNCHANGED <<safeguards, handle, origin, it, yielded>>
    /\ UNCHANGED dictFrame

insert(h, k, v) ==
    /\ Bound(h) /\ NotBorrowed(h)
    /\ LET r == insert_outcome(h, k, v) IN
          /\ cells' = r.cells
          /\ IterSees(r.cells)
          /\ ret' = [op |-> "insert", h |-> h, k |-> k, v |-> v, result |-> r.result,
                     before |-> IF EngineHas(Data(h).entries, k)
                                THEN Some(EngineGet(Data(h).entries, k, NIL))
                                ELSE None,
                     panicked |-> r.panicked]
    /\ UNCHANGED <<safeguards, handle, origin, it, yielded>>
    /\ UNCHANGED dictFrame

\* remove(key): get(key), then erase(key); the engine leaves read-only data alone.
remove(h, k) ==
    /\ Bound(h) /\ NotBorrowed(h)
    /\ LET new == IF balanced_ensure_mutable(h) /\ ~is_read_only(h)
                  THEN [cells EXCEPT ![handle[h]].entries = EngineErase(@, k)]
                  ELSE cells IN
          /\ cells' = new
          /\ IterSees(new)
    /\ ret' = NoRet
    /\ UNCHANGED <<safeguards, handle, origin, it, yielded>>
    /\ UNCHANGED dictFrame

\* The API level the binding is built for: get_or_add() exists from 4.3 on.
Apis == {"since_4_3", "before_4_3"}

\* Dictionary.get_or_add(key, default): the stored value, or default after
\* writing it through operator[].
EngineGetOrAdd(dc, k, default) ==
    IF EngineHas(dc.entries, k)
    THEN [dc |-> dc, value |-> EngineGet(dc.entries, k, default)]
    ELSE [dc |-> EngineIndexWrite(dc, k, default), value |-> default]

\* A polyfill that writes the default whether or not the key is there.
get_or_insert_overwrites(h, k, default) ==
    [cells |-> set_outcome(h, k, default).cells, result |-> Some(default)]

\* A get_or_insert() that hands back the default even when a value is stored.
get_or_insert_returns_default(h, k, default) ==
    [cells |-> [cells EXCEPT ![handle[h]] = EngineGetOrAdd(Data(h), k, default).dc],
     result |-> Some(default)]

\* get_or_insert(), built for 4.3 and later: as_inner().get_or_add(key, default).
get_or_insert_native(h, k, default) ==
    LET r == EngineGetOrAdd(Data(h), k, default) IN
    [cells |-> [cells EXCEPT ![handle[h]] = r.dc], result |-> Some(r.value)]

\* get_or_insert(), built for older versions: get(key), else set(key, default).
get_or_insert_polyfill(h, k, default) ==
    IF get(h, k) # None
    THEN [cells |-> cells, result |-> get(h, k)]
    ELSE [cells |-> set_outcome(h, k, default).cells, result |-> Some(default)]

get_or_insert(h, k, default) ==
    /\ Bound(h) /\ NotBorrowed(h)
    /\ \E api \in Apis :
          LET r == IF ~balanced_ensure_mutable(h)
                   THEN [cells |-> cells, result |-> None]
                   ELSE IF api = "since_4_3"
                        THEN get_or_insert_native(h, k, default)
                        ELSE get_or_insert_polyfill(h, k, default) IN
          /\ cells' = r.cells
          /\ IterSees(r.cells)
          /\ ret' = [op |-> "get_or_insert", h |-> h, k |-> k, v |-> default,
                     result |-> r.result,
                     before |-> IF EngineHas(Data(h).entries, k)
                                THEN Some(EngineGet(Data(h).entries, k, NIL))
                                ELSE None,
                     panicked |-> ~balanced_ensure_mutable(h)]
    /\ UNCHANGED <<safeguards, handle, origin, it, yielded>>
    /\ UNCHANGED dictFrame

\* into_read_only(): make_read_only() on the data, for every reference to it.
into_read_only(h) ==
    /\ Bound(h) /\ NotBorrowed(h)
    /\ ~is_read_only(h)
    /\ cells' = [cells EXCEPT ![handle[h]].read_only = TRUE]
    /\ mutated' = mutated
    /\ ret' = NoRet
    /\ UNCHANGED <<safeguards, handle, origin, it, yielded>>
    /\ UNCHANGED dictFrame

\* ---- VarDictionary: bulk mutation, reserve, reverse search -----------------
\* Dictionary.clear(), Dictionary.merge(other, overwrite) and
\* Dictionary.reserve(n): the engine leaves read-only data alone; reserve never
\* touches the entries.
EngineClear(dc) == IF dc.read_only THEN dc ELSE [dc EXCEPT !.entries = << >>]

RECURSIVE EngineMerge(_, _, _)
EngineMerge(dc, e, overwrite) ==
    IF dc.read_only \/ e = << >>
    THEN dc
    ELSE LET k == Head(e)[1]
             v == Head(e)[2]
             written == IF overwrite \/ ~EngineHas(dc.entries, k)
                        THEN EngineIndexWrite(dc, k, v)
                        ELSE dc
         IN  EngineMerge(written, Tail(e), overwrite)

EngineReserve(dc, n) == dc

\* Dictionary.find_key(value): the first key stored with that value, or nil.
EngineFindKey(e, v) ==
    IF \E i \in 1..Len(e) : e[i][2] = v
    THEN e[CHOOSE i \in 1..Len(e) :
              e[i][2] = v /\ \A j \in 1..(i - 1) : e[j][2] # v][1]
    ELSE NIL

\* The key/value sequences handed to Extend::extend.
PairSeqs ==
    UNION {[1..n -> Keys \X Values] : n \in 1..MaxPairs}

\* for (k, v) in iter { self.set_inner(k, v) }
RECURSIVE extend_inner(_, _, _)
extend_inner(cs, h, pairs) ==
    IF pairs = << >>
    THEN cs
    ELSE extend_inner(set_inner(cs, h, Head(pairs)[1], Head(pairs)[2]), h, Tail(pairs))

\* clear()
clear(h) ==
    /\ Bound(h) /\ NotBorrowed(h)
    /\ LET new == IF balanced_ensure_mutable(h)
                  THEN [cells EXCEPT ![handle[h]] = EngineClear(@)]
                  ELSE cells IN
          /\ cells' = new
          /\ IterSees(new)
    /\ ret' = [op |-> "clear", h |-> h, k |-> NIL, v |-> NIL, result |-> None,
               before |-> None, panicked |-> ~balanced_ensure_mutable(h)]
    /\ UNCHANGED <<safeguards, handle, origin, it, yielded>>
    /\ UNCHANGED dictFrame

\* The entries of the dictionary `other` handed to extend_dictionary.
OtherDicts ==
    {<< >>} \cup {e \in PairSeqs : \A i, j \in 1..Len(e) : e[i][1] = e[j][1] => i = j}

\* extend_dictionary(other, overwrite)
extend_dictionary(h, other, overwrite) ==
    /\ Bound(h) /\ NotBorrowed(h)
    /\ LET new == IF balanced_ensure_mutable(h)
                  THEN [cells EXCEPT ![handle[h]] =
                           EngineMerge(@, other, overwrite)]
                  ELSE cells IN
          /\ cells' = new
          /\ IterSees(new)
    /\ ret' = [op |-> "extend_dictionary", h |-> h, k |-> NIL, v |-> NIL,
               result |-> None, before |-> None,
               panicked |-> ~balanced_ensure_mutable(h)]
    /\ UNCHANGED <<safeguards, handle, origin, it, yielded>>
    /\ UNCHANGED dictFrame

\* Extend::extend(iter)
extend(h, pairs) ==
    /\ Bound(h) /\ NotBorrowed(h)
    /\ LET new == IF balanced_ensure_mutable(h)
                  THEN extend_inner(cells, h, pairs)
                  ELSE cells IN
          /\ cells' = new
          /\ IterSees(new)
    /\ ret' = [op |-> "extend", h |-> h, k |-> NIL, v |-> NIL, result |-> None,
               before |-> None, panicked |-> ~balanced_ensure_mutable(h)]
    /\ UNCHANGED <<safeguards, handle, origin, it, yielded>>
    /\ UNCHANGED dictFrame

\* A to_variant() that puts other data than the dictionary's into the variant.
dict_to_variant_other(h) == IF handle[h] = DuplicateCell THEN 1 ELSE DuplicateCell

\* self.to_variant(): a variant holding another reference to the same data.
dict_to_variant(h) == handle[h]

\* reserve(capacity): call "reserve" on a variant of the dictionary, then
\* re-assign self from the variant.
reserve(h, capacity) ==
    /\ Bound(h) /\ NotBorrowed(h)
    /\ IF balanced_ensure_mutable(h)
       THEN LET variant == dict_to_variant(h)
                new == [cells EXCEPT ![variant] = EngineReserve(@, capacity)]
            IN  /\ cells' = new
                /\ IterSees(new)
                /\ handle' = [handle EXCEPT ![h] = variant]
       ELSE UNCHANGED <<cells, handle, mutated>>
    /\ ret' = [op |-> "reserve", h |-> h, k |-> NIL, v |-> NIL, result |-> None,
               before |-> None, panicked |-> ~balanced_ensure_mutable(h)]
    /\ UNCHANGED <<safeguards, origin, it, yielded>>
    /\ UNCHANGED dictFrame

\* find_key_by_value(value)
find_key_by_value_outcome(h, v) ==
    LET key == EngineFindKey(Data(h).entries, v)
    IN  IF key # NIL \/ contains_key(h, key) THEN Some(key) ELSE None

find_key_by_value(h, v) ==
    /\ Bound(h)
    /\ ret' = [op |-> "find_key_by_value", h |-> h, k |-> NIL, v |-> v,
               result |-> find_key_by_value_outcome(h, v), before |-> None,
               panicked |-> FALSE]
    /\ UNCHANGED <<safeguards, cells, handle, origin, it, yielded, mutated>>
    /\ UNCHANGED dictFrame

\* Programs that use every mutating operation on a dictionary and its clone.
NextMut ==
    \/ Clone
    \/ \E h \in Handles, k \in Keys, v \in Values : set(h, k, v)
    \/ \E h \in Handles, k \in Keys, v \in Values : insert(h, k, v)
    \/ \E h \in Handles, k \in Keys, v \in Values : get_or_insert(h, k, v)
    \/ \E h \in Handles, k \in Keys : remove(h, k)
    \/ \E h \in Handles : clear(h)
    \/ \E h \in Handles, other \in OtherDicts, overwrite \in BOOLEAN :
          extend_dictionary(h, other, overwrite)
    \/ \E h \in Handles, pairs \in PairSeqs : extend(h, pairs)
    \/ \E h \in Handles, capacity \in 0..MaxPairs : reserve(h, capacity)
    \/ \E h \in Handles, v \in Values : find_key_by_value(h, v)
    \/ \E h \in Handles : into_read_only(h)

InitDict ==
    /\ safeguards \in {"balanced", "disengaged"}
    /\ cells = [c \in Cells |-> EmptyCell]
    /\ handle = [h \in Handles |-> IF h = "d" THEN 1 ELSE 0]
    /\ origin = "none"
    /\ ret = NoRet
    /\ it = NoIter
    /\ yielded = 0
    /\ mutated = FALSE

\* Programs that share one dictionary between a variable and its clone.
NextDict ==
    \/ Clone
    \/ \E h \in Handles, k \in Keys, v \in Values : set(h, k, v)
    \/ \E h \in Handles, k \in Keys, v \in Values : insert(h, k, v)
    \/ \E h \in Handles, k \in Keys, v \in Values : get_or_insert(h, k, v)
    \/ \E h \in Handles, k \in Keys : remove(h, k)
    \/ \E h \in Handles : into_read_only(h)

\* Programs that work on a dictionary and a shallow duplicate of it.
NextDup ==
    \/ DuplicateShallow
    \/ \E h \in Handles, k \in Keys, v \in Values : set(h, k, v)
    \/ \E h \in Handles, k \in Keys : remove(h, k)

(***************************************************************************)
(* Iterators over a VarDictionary.  Iter, Keys and IntoIter keep the last  *)
(* key handed out and ask the engine for the key after it; next_idx counts *)
(* the steps taken for size_hint().                                        *)
(***************************************************************************)
saturating_sub(a, b) == IF a >= b THEN a - b ELSE 0

\* DictionaryIter::new / IntoIter::new over the data `cell`, borrowed from `h`.
DictionaryIter_new(kind, h, cell) ==
    [kind |-> kind, h |-> h, cell |-> cell, last_key |-> None,
     is_first |-> TRUE, next_idx |-> 0]

\* An ffi_iterate() that hands back the cursor whether or not there is a next key.
ffi_iterate_ignores_has_next(r) == [panicked |-> FALSE, key |-> Some(r.key)]

\* ffi_iterate(): Some(key) when the engine has a next key; assert!(valid).
ffi_iterate(r) ==
    IF r.has_next
    THEN [panicked |-> ~r.valid, key |-> Some(r.key)]
    ELSE [panicked |-> FALSE, key |-> None]

call_init_internal(e) == ffi_iterate(EngineIterInit(e))

\* A call_next_internal() that asks the engine for the first key again.
call_next_internal_restarts(e, last) == ffi_iterate(EngineIterInit(e))

call_next_internal(e, last) == ffi_iterate(EngineIterNext(e, last))

\* A next_key() that starts over when no last key is kept.
next_key_restartable(i, e) ==
    LET r == IF i.is_first \/ i.last_key = None THEN call_init_internal(e)
             ELSE call_next_internal(e, i.last_key[1]) IN
    [it |-> [i EXCEPT !.is_first = FALSE,
                      !.next_idx = IF @ < Len(e) THEN @ + 1 ELSE @,
                      !.last_key = r.key],
     key |-> r.key, panicked |-> r.panicked]

\* next_key() on iterator state i over entries e: the new iterator state and
\* the key handed out.  `last_key.take()?` ends the call when no key is kept.
next_key(i, e) ==
    IF ~i.is_first /\ i.last_key = None
    THEN [it |-> i, key |-> None, panicked |-> FALSE]
    ELSE LET r == IF i.is_first THEN call_init_internal(e)
                  ELSE call_next_internal(e, i.last_key[1]) IN
         IF r.panicked
         THEN [it |-> [i EXCEPT !.is_first = FALSE, !.last_key = None],
               key |-> None, panicked |-> TRUE]
         ELSE [it |-> [i EXCEPT !.is_first = FALSE,
                                !.next_idx = IF @ < Len(e) THEN @ + 1 ELSE @,
                                !.last_key = r.key],
               key |-> r.key, panicked |-> FALSE]

\* DictionaryIter::next_key_value(): no pair when the key is not in the dictionary.
next_key_value(i, e) ==
    LET r == next_key(i, e) IN
    IF r.key = None \/ ~EngineHas(e, r.key[1])
    THEN [it |-> r.it, key |-> None, value |-> NIL, panicked |-> r.panicked]
    ELSE [it |-> r.it, key |-> r.key, value |-> EngineGet(e, r.key[1], NIL),
          panicked |-> FALSE]

\* Keys::next(): the key alone.
Keys_next(i, e) ==
    LET r == next_key(i, e) IN
    [it |-> r.it, key |-> r.key, value |-> NIL, panicked |-> r.panicked]

\* IntoIter::next(): the key and get(key, nil).
IntoIter_next(i, e) ==
    LET r == next_key(i, e) IN
    IF r.key = None
    THEN [it |-> r.it, key |-> None, value |-> NIL, panicked |-> r.panicked]
    ELSE [it |-> r.it, key |-> r.key, value |-> EngineGet(e, r.key[1], NIL),
          panicked |-> FALSE]

\* A size_hint() that subtracts without saturating: usize underflow.
size_hint_unchecked(i, e) ==
    [panicked |-> Len(e) < i.next_idx,
     lower |-> Len(e) - i.next_idx,
     upper |-> Some(Len(e) - i.next_idx)]

\* A size_hint() that does not count the steps taken.
size_hint_total(i, e) ==
    [panicked |-> FALSE, lower |-> Len(e), upper |-> Some(Len(e))]

\* size_hint(): (remaining, Some(remaining)).
size_hint(i, e) ==
    [panicked |-> FALSE,
     lower |-> saturating_sub(Len(e), i.next_idx),
     upper |-> Some(saturating_sub(Len(e), i.next_idx))]

IterLive == it.kind # "none"
IterEntries == cells[it.cell].entries

StartIter(i) ==
    /\ ~IterLive
    /\ it' = i
    /\ yielded' = 0
    /\ mutated' = FALSE
    /\ ret' = NoRet
    /\ UNCHANGED <<safeguards, cells>>
    /\ UNCHANGED dictFrame

\* let it = h.iter_shared();
iter_shared(h) ==
    /\ Bound(h)
    /\ StartIter(DictionaryIter_new("Iter", h, handle[h]))
    /\ UNCHANGED <<handle, origin>>

\* let it = h.keys_shared();
keys_shared(h) ==
    /\ Bound(h)
    /\ StartIter(DictionaryIter_new("Keys", h, handle[h]))
    /\ UNCHANGED <<handle, origin>>

\* let it = c.into_iter();  where c is a clone of d: the iterator takes over the
\* reference, d still reaches the data.
into_iter ==
    /\ Bound("c") /\ handle["c"] = handle["d"]
    /\ StartIter(DictionaryIter_new("IntoIter", "none", handle["c"]))
    /\ handle' = [handle EXCEPT !["c"] = 0]
    /\ origin' = "none"

\* it.next()
next ==
    /\ IterLive
    /\ yielded < MaxYield
    /\ LET r == CASE it.kind = "Iter" -> next_key_value(it, IterEntries)
                  [] it.kind = "Keys" -> Keys_next(it, IterEntries)
                  [] OTHER -> IntoIter_next(it, IterEntries) IN
          /\ it' = r.it
          /\ yielded' = IF r.key = None THEN yielded ELSE yielded + 1
          /\ ret' = [op |-> "next", h |-> it.h,
                     k |-> IF r.key = None THEN NIL ELSE r.key[1],
                     v |-> r.value, result |-> r.key, before |-> None,
                     panicked |-> r.panicked]
    /\ UNCHANGED <<safeguards, cells, handle, origin, mutated>>
    /\ UNCHANGED dictFrame

\* drop(it)
drop_iter ==
    /\ IterLive
    /\ it' = NoIter
    /\ yielded' = 0
    /\ mutated' = FALSE
    /\ ret' = NoRet
    /\ UNCHANGED <<safeguards, cells, handle, origin>>
    /\ UNCHANGED dictFrame

NextIter ==
    \/ Clone
    \/ \E h \in Handles, k \in Keys, v \in Values : set(h, k, v)
    \/ \E h \in Handles, k \in Keys : remove(h, k)
    \/ \E h \in Handles : iter_shared(h)
    \/ \E h \in Handles : keys_shared(h)
    \/ into_iter
    \/ next
    \/ drop_iter

(***************************************************************************)
(* Relaxed Variant conversion: the cache of from-variant constructors.     *)
(* get_variant_to_type_constructor() keeps the constructors it has looked  *)
(* up in the process-wide CONSTRUCTORS table, behind the table's lock.     *)
(***************************************************************************)
VariantTypes == {"NIL", "BOOL", "INT", "FLOAT", "STRING"}

\* VariantType::sys(): the ordinal of a type tag.
sys(tag) ==
    CASE tag = "NIL" -> 0
      [] tag = "BOOL" -> 1
      [] tag = "INT" -> 2
      [] tag = "FLOAT" -> 3
      [] OTHER -> 4

\* Length of the CONSTRUCTORS table.
CacheSlots == 40

ConvThreads == Threads

\* A can-convert predicate that accepts every pair of tags.
can_convert_godot_lenient(from, to) == TRUE

\* variant_can_convert_strict(from, to), on the modelled tags: anything converts
\* to itself and to NIL, nil converts to no other modelled type, and the
\* numeric types and bool convert into each other.
can_convert_godot_strict(from, to) ==
    \/ from = to
    \/ to = "NIL"
    \/ /\ from # "NIL"
       /\ \/ to = "BOOL" /\ from \in {"INT", "FLOAT"}
          \/ to = "INT" /\ from \in {"BOOL", "FLOAT"}
          \/ to = "FLOAT" /\ from \in {"BOOL", "INT"}

\* The engine's get_variant_to_type_constructor(tag): a function pointer for
\* every type but NIL.
EngineConstructor(tag) == IF tag = "NIL" THEN None ELSE Some(tag)

\* The destination tags a relaxed conversion asks a constructor for: those that
\* pass the NIL and can-convert checks for some held type.
ConverterTargets ==
    {to \in VariantTypes :
        /\ to # "NIL"
        /\ \E from \in VariantTypes : from # to /\ can_convert_godot_strict(from, to)}

Idle == [pc |-> "idle", to |-> "NIL", found |-> None, converter |-> None]

\* A lock() that lets a thread in while another one holds the table.
lock_unguarded == TRUE

\* CONSTRUCTORS.lock(): blocks until no thread holds the table.
lock_available == lockHolder = 0

\* A relaxed conversion on thread t reaches get_variant_to_type_constructor(to).
\* A tag outside the table is looked up without caching.
constructor_call(t, to) ==
    /\ conv[t].pc = "idle"
    /\ lookups[to] < MaxLookups
    /\ IF sys(to) >= CacheSlots
       THEN /\ conv' = [conv EXCEPT ![t] = [pc |-> "returned", to |-> to, found |-> None,
                                            converter |-> EngineConstructor(to)]]
            /\ lookups' = [lookups EXCEPT ![to] = @ + 1]
       ELSE /\ conv' = [conv EXCEPT ![t] = [Idle EXCEPT !.pc = "locking", !.to = to]]
            /\ UNCHANGED lookups
    /\ UNCHANGED <<constructors, lockHolder>>
    /\ UNCHANGED convFrame

\* let mut constructors = CONSTRUCTORS.lock();
constructor_lock(t) ==
    /\ conv[t].pc = "locking"
    /\ lock_available
    /\ lockHolder' = t
    /\ conv' = [conv EXCEPT ![t].pc = "locked"]
    /\ UNCHANGED <<constructors, lookups>>
    /\ UNCHANGED convFrame

\* if let Some(c) = constructors[index] { return Some(c); }
constructor_check(t) ==
    /\ conv[t].pc = "locked"
    /\ IF constructors[conv[t].to] # None
       THEN /\ conv' = [conv EXCEPT ![t].pc = "returned",
                                    ![t].converter = constructors[conv[t].to]]
            /\ lockHolder' = IF lockHolder = t THEN 0 ELSE lockHolder
       ELSE /\ conv' = [conv EXCEPT ![t].pc = "missed"]
            /\ UNCHANGED lockHolder
    /\ UNCHANGED <<constructors, lookups>>
    /\ UNCHANGED convFrame

\* let c = interface_fn!(get_variant_to_type_constructor)(to_type.sys());
constructor_lookup(t) ==
    /\ conv[t].pc = "missed"
    /\ conv' = [conv EXCEPT ![t].pc = "found", ![t].found = EngineConstructor(conv[t].to)]
    /\ lookups' = [lookups EXCEPT ![conv[t].to] = @ + 1]
    /\ UNCHANGED <<constructors, lockHolder>>
    /\ UNCHANGED convFrame

\* constructors[index] = c; c   (the guard is dropped on return)
constructor_store(t) ==
    /\ conv[t].pc = "found"
    /\ constructors' = [constructors EXCEPT ![conv[t].to] = conv[t].found]
    /\ conv' = [conv EXCEPT ![t].pc = "returned", ![t].converter = conv[t].found]
    /\ lockHolder' = IF lockHolder = t THEN 0 ELSE lockHolder
    /\ UNCHANGED lookups
    /\ UNCHANGED convFrame

\* The conversion goes on with the constructor and ends.
constructor_done(t) ==
    /\ conv[t].pc = "returned"
    /\ conv' = [conv EXCEPT ![t] = Idle]
    /\ UNCHANGED <<constructors, lockHolder, lookups>>
    /\ UNCHANGED convFrame

InitConv ==
    /\ constructors = [tag \in VariantTypes |-> None]
    /\ lockHolder = 0
    /\ lookups = [tag \in VariantTypes |-> 0]
    /\ conv = [t \in ConvThreads |-> Idle]

NextCache ==
    \/ \E t \in ConvThreads, to \in ConverterTargets : constructor_call(t, to)
    \/ \E t \in ConvThreads : constructor_lock(t)
    \/ \E t \in ConvThreads : constructor_check(t)
    \/ \E t \in ConvThreads : constructor_lookup(t)
    \/ \E t \in ConvThreads : constructor_store(t)
    \/ \E t \in ConvThreads : constructor_done(t)

(***************************************************************************)
(* Strict and relaxed conversion of a Variant to a host type.  A Variant   *)
(* is a type tag with a payload.  Payloads are integers: a bool is 0 or 1  *)
(* (false, true), a float is counted in halves (3 is 1.5), a string is the *)
(* number of a string.                                                     *)
(***************************************************************************)
Variant(ty, val) == [ty |-> ty, val |-> val]

Variant_nil == Variant("NIL", 0)

Payloads(ty) ==
    CASE ty = "NIL" -> {0}
      [] ty = "BOOL" -> {0, 1}
      [] ty = "INT" -> {0, 1, 200}
      [] ty = "FLOAT" -> {0, 2, 3}
      [] OTHER -> {0, 1}

Variants == UNION {{Variant(ty, val) : val \in Payloads(ty)} : ty \in VariantTypes}

\* The host types T a conversion is asked for.
HostTypes == {"Variant", "unit", "bool", "i64", "i8", "f64", "GString"}

\* ffi_variant_type::<T>(): ExtVariantType::Variant, or the concrete tag of T.
ffi_variant_type(T) ==
    CASE T = "Variant" -> "Variant"
      [] T = "unit" -> "NIL"
      [] T = "bool" -> "BOOL"
      [] T \in {"i64", "i8"} -> "INT"
      [] T = "f64" -> "FLOAT"
      [] OTHER -> "STRING"

Ok(x) == [kind |-> "Ok", value |-> x, expected |-> "NIL", actual |-> "NIL"]

\* FromVariantError::BadType { expected, actual }.into_error(variant)
BadType(expected, actual, variant) ==
    [kind |-> "BadType", value |-> variant, expected |-> expected, actual |-> actual]

\* FromFfiError: the wire value does not fit the host type.
BadFfi(variant) ==
    [kind |-> "BadFfi", value |-> variant, expected |-> "NIL", actual |-> "NIL"]

Panicked == [kind |-> "Panic", value |-> Variant_nil, expected |-> "NIL", actual |-> "NIL"]

\* <T::Via as GodotType>::try_from_ffi() followed by T::engine_try_from_godot():
\* only the narrowing to i8 can fail.
try_from_ffi(T, wire) ==
    IF T = "i8" /\ ~(wire.val \in -128..127)
        THEN BadFfi(wire)
        ELSE Ok(Variant(T, wire.val))

\* T::try_from_variant(): the strict conversion.
try_from_variant(T, variant) ==
    IF ffi_variant_type(T) = "Variant"
        THEN Ok(variant)
        ELSE IF variant.ty # ffi_variant_type(T)
            THEN BadType(ffi_variant_type(T), variant.ty, variant)
            ELSE try_from_ffi(T, variant)

\* The engine's from-variant constructor for tag `to`, applied to a variant the
\* can-convert predicate accepts.
converter(to, variant) ==
    CASE to = variant.ty -> variant
      [] to = "BOOL" -> Variant(to, IF variant.val # 0 THEN 1 ELSE 0)
      [] to = "INT" /\ variant.ty = "FLOAT" -> Variant(to, variant.val \div 2)
      [] to = "INT" -> Variant(to, variant.val)
      [] to = "FLOAT" -> Variant(to, 2 * variant.val)
      [] OTHER -> Variant(to, 0)

\* A relaxed conversion that, for an equal tag, hands back the wire value as is.
try_from_variant_relaxed_raw(T, variant) ==
    IF ffi_variant_type(T) = variant.ty
        THEN Ok(Variant(T, variant.val))
        ELSE try_from_variant(T, variant)

\* A relaxed conversion without the check for a NIL target.
try_from_variant_relaxed_nil_target(T, variant) ==
    IF ffi_variant_type(T) = "Variant" \/ ffi_variant_type(T) = variant.ty
        THEN try_from_variant(T, variant)
        ELSE IF ~can_convert_godot_strict(variant.ty, ffi_variant_type(T))
            THEN BadType(ffi_variant_type(T), variant.ty, variant)
            ELSE IF EngineConstructor(ffi_variant_type(T)) = None
                THEN Panicked
                ELSE try_from_ffi(T, converter(ffi_variant_type(T), variant))

\* try_from_variant_relaxed::<T>(variant)
try_from_variant_relaxed(T, variant) ==
    LET from_type == variant.ty
        to_type == ffi_variant_type(T)
    IN  IF to_type = "Variant"
            THEN try_from_variant(T, variant)
        ELSE IF from_type = to_type
            THEN try_from_variant(T, variant)
        ELSE IF to_type = "NIL" \/ ~can_convert_godot_strict(from_type, to_type)
            THEN BadType(to_type, from_type, variant)
        ELSE IF EngineConstructor(to_type) = None
            THEN Panicked
        ELSE try_from_ffi(T, converter(to_type, variant))

NoRes == [op |-> "none", T |-> "Variant", from |-> Variant_nil, out |-> Ok(Variant_nil)]

\* Variant::from(value): the program holds another variant.
Variant_from(variant) ==
    /\ variant # held
    /\ held' = variant
    /\ res' = NoRes
    /\ UNCHANGED valFrame

\* Variant::try_to::<T>()
try_to(T) ==
    /\ res' = [op |-> "try_to", T |-> T, from |-> held,
               out |-> try_from_variant(T, held)]
    /\ UNCHANGED held
    /\ UNCHANGED valFrame

\* Variant::try_to_relaxed::<T>()
try_to_relaxed(T) ==
    /\ res' = [op |-> "try_to_relaxed", T |-> T, from |-> held,
               out |-> try_from_variant_relaxed(T, held)]
    /\ UNCHANGED held
    /\ UNCHANGED valFrame

InitVal ==
    /\ held = Variant_nil
    /\ res = NoRes

NextConv ==
    \/ \E variant \in Variants : Variant_from(variant)
    \/ \E T \in HostTypes : try_to(T)
    \/ \E T \in HostTypes : try_to_relaxed(T)

(***************************************************************************)
(* Manual extensions of Object and Node: typed accessors in a panicking    *)
(* and a try_ form.  The engine keeps the object's properties and metadata *)
(* (a name that is not set reads as nil) and the tree the node is in.      *)
(***************************************************************************)
Names == {"p"}

Methods == {"get", "get_meta"}

\* SceneTree and a class that inherits it.
TreeClasses == {"SceneTree", "CustomTree"}

Returned(x) == [kind |-> "Return", value |-> x]

Panic == [kind |-> "Panic", value |-> Variant_nil]

\* Result::ok()
ok(result) == IF result.kind = "Ok" THEN Some(result.value) ELSE None

\* Result::unwrap_or_else(|err| panic!(..)) and Option::unwrap_or_else(|| panic!(..))
unwrap_or_else_panic(option) == IF option = None THEN Panic ELSE Returned(option[1])

\* Object::get(property), Object::get_meta(name), Object::call(method, args)
Object_get(property) == object.props[property]

Object_get_meta(name) == object.metas[name]

Object_call(method, name) ==
    IF method = "get" THEN Object_get(name) ELSE Object_get_meta(name)

\* Node::get_tree()
Node_get_tree == IF object.tree = "none" THEN None ELSE Some(object.tree)

\* Gd::try_cast::<T>().ok()
try_cast(tree, T) ==
    IF tree = T \/ (tree = "CustomTree" /\ T = "SceneTree")
        THEN Some([class |-> T, instance |-> tree])
        ELSE None

get_as_outcome(T, property) ==
    LET variant == Object_get(property)
    IN  IF variant.ty = "NIL"
            THEN Panic
            ELSE unwrap_or_else_panic(ok(try_from_variant(T, variant)))

try_get_as_outcome(T, property) == ok(try_from_variant(T, Object_get(property)))

get_meta_as_outcome(T, name) ==
    LET variant == Object_get_meta(name)
    IN  IF variant.ty = "NIL"
            THEN Panic
            ELSE unwrap_or_else_panic(ok(try_from_variant(T, variant)))

try_get_meta_as_outcome(T, name) == ok(try_from_variant(T, Object_get_meta(name)))

call_as_outcome(T, method, name) ==
    unwrap_or_else_panic(ok(try_from_variant(T, Object_call(method, name))))

try_call_as_outcome(T, method, name) == ok(try_from_variant(T, Object_call(method, name)))

try_get_tree_as_outcome(T) ==
    IF Node_get_tree = None THEN None ELSE try_cast(Node_get_tree[1], T)

get_tree_as_outcome(T) == unwrap_or_else_panic(try_get_tree_as_outcome(T))

NoAcc == [op |-> "none", T |-> "Variant", name |-> "p", method |-> "none", out |-> None]

Accessed(op, T, name, method, out) ==
    [op |-> op, T |-> T, name |-> name, method |-> method, out |-> out]

\* Object::set_as(property, value)
set_as(property, value) ==
    /\ object.props[property] # value
    /\ object' = [object EXCEPT !.props[property] = value]
    /\ acc' = NoAcc
    /\ UNCHANGED objFrame

\* Object::set_meta_as(name, value)
set_meta_as(name, value) ==
    /\ object.metas[name] # value
    /\ object' = [object EXCEPT !.metas[name] = value]
    /\ acc' = NoAcc
    /\ UNCHANGED objFrame

\* The node enters a scene tree of the given class, or leaves its tree.
enter_tree(class) ==
    /\ object.tree = "none"
    /\ object' = [object EXCEPT !.tree = class]
    /\ acc' = NoAcc
    /\ UNCHANGED objFrame

exit_tree ==
    /\ object.tree # "none"
    /\ object' = [object EXCEPT !.tree = "none"]
    /\ acc' = NoAcc
    /\ UNCHANGED objFrame

get_as(T, property) ==
    /\ acc' = Accessed("get_as", T, property, "none", get_as_outcome(T, property))
    /\ UNCHANGED object
    /\ UNCHANGED objFrame

try_get_as(T, property) ==
    /\ acc' = Accessed("try_get_as", T, property, "none", try_get_as_outcome(T, property))
    /\ UNCHANGED object
    /\ UNCHANGED objFrame

get_meta_as(T, name) ==
    /\ acc' = Accessed("get_meta_as", T, name, "none", get_meta_as_outcome(T, name))
    /\ UNCHANGED object
    /\ UNCHANGED objFrame

try_get_meta_as(T, name) ==
    /\ acc' = Accessed("try_get_meta_as", T, name, "none", try_get_meta_as_outcome(T, name))
    /\ UNCHANGED object
    /\ UNCHANGED objFrame

call_as(T, method, name) ==
    /\ acc' = Accessed("call_as", T, name, method, call_as_outcome(T, method, name))
    /\ UNCHANGED object
    /\ UNCHANGED objFrame

try_call_as(T, method, name) ==
    /\ acc' = Accessed("try_call_as", T, name, method, try_call_as_outcome(T, method, name))
    /\ UNCHANGED object
    /\ UNCHANGED objFrame

get_tree_as(T) ==
    /\ acc' = Accessed("get_tree_as", T, "p", "none", get_tree_as_outcome(T))
    /\ UNCHANGED object
    /\ UNCHANGED objFrame

try_get_tree_as(T) ==
    /\ acc' = Accessed("try_get_tree_as", T, "p", "none", try_get_tree_as_outcome(T))
    /\ UNCHANGED object
    /\ UNCHANGED objFrame

InitObj ==
    /\ object = [props |-> [n \in Names |-> Variant_nil],
              metas |-> [n \in Names |-> Variant_nil],
              tree |-> "none"]
    /\ acc = NoAcc

NextAccess ==
    \/ \E n \in Names, value \in Variants : set_as(n, value)
    \/ \E n \in Names, value \in Variants : set_meta_as(n, value)
    \/ \E class \in TreeClasses : enter_tree(class)
    \/ exit_tree
    \/ \E T \in HostTypes, n \in Names : get_as(T, n)
    \/ \E T \in HostTypes, n \in Names : try_get_as(T, n)
    \/ \E T \in HostTypes, n \in Names : get_meta_as(T, n)
    \/ \E T \in HostTypes, n \in Names : try_get_meta_as(T, n)
    \/ \E T \in HostTypes, m \in Methods, n \in Names : call_as(T, m, n)
    \/ \E T \in HostTypes, m \in Methods, n \in Names : try_call_as(T, m, n)
    \/ \E T \in TreeClasses : get_tree_as(T)
    \/ \E T \in TreeClasses : try_get_tree_as(T)

(***************************************************************************)
(* MethodInfo handed to the engine as an owned sys struct.  heap is the    *)
(* sequence of allocations leaked so far; an allocation is named by its    *)
(* position and counts how often it has been reclaimed.                    *)
(***************************************************************************)
Infos == 1..MaxInfos
ArgCounts == 0..MaxArgs

NoInfo == [st |-> "none", name |-> 0, return_value |-> [name |-> 0, hint_string |-> 0],
           argument_count |-> 0, arguments |-> 0,
           default_argument_count |-> 0, default_arguments |-> 0,
           first |-> 1, last |-> 0]

\* One leaked allocation: a string, a boxed variant or a boxed slice with its elements.
Allocation(kind, elems) == [kind |-> kind, elems |-> elems, frees |-> 0]

\* PropertyInfo::into_owned_property_sys(): name and hint_string are leaked at
\* the two positions after base; class_name is borrowed.
into_owned_property_sys(base) == [name |-> base + 1, hint_string |-> base + 2]

PropertyAllocations == << Allocation("StringName", << >>), Allocation("GString", << >>) >>

\* A free_owned_property_sys() that leaves the hint string leaked.
free_owned_property_sys_name_only(info) == << info.name >>

\* PropertyInfo::free_owned_property_sys(info): the pointers it reclaims.
free_owned_property_sys(info) == << info.name, info.hint_string >>

RECURSIVE Reclaim(_, _)
\* Box::from_raw / from_owned_*_sys on each pointer of ptrs, then drop.
Reclaim(h, ptrs) ==
    IF ptrs = << >> THEN h
    ELSE Reclaim([h EXCEPT ![Head(ptrs)].frees = @ + 1], Tail(ptrs))

RECURSIVE Flatten(_)
Flatten(seqs) == IF seqs = << >> THEN << >> ELSE Head(seqs) \o Flatten(Tail(seqs))

\* MethodInfo::into_owned_method_sys() of a method with n arguments and m
\* default arguments: the allocations it leaks, in the order it makes them, and
\* the struct it returns.
into_owned_method_sys_layout(base, n, m) ==
    LET args == [j \in 1..n |-> into_owned_property_sys(base + 2 * (j - 1))]
        argSlice == base + 2 * n + 1
        defaults == [j \in 1..m |-> [ptr |-> argSlice + j]]
        defaultSlice == argSlice + m + 1
        name == defaultSlice + 1
        return_value == into_owned_property_sys(name)
    IN [allocations |->
            Flatten([j \in 1..n |-> PropertyAllocations])
            \o << Allocation("slice", args) >>
            \o [j \in 1..m |-> Allocation("Variant", << >>)]
            \o << Allocation("slice", defaults) >>
            \o << Allocation("StringName", << >>) >>
            \o PropertyAllocations,
        info |-> [st |-> "owned", name |-> name, return_value |-> return_value,
                  argument_count |-> n, arguments |-> argSlice,
                  default_argument_count |-> m, default_arguments |-> defaultSlice,
                  first |-> base + 1, last |-> return_value.hint_string]]

into_owned_method_sys(i, n, m) ==
    /\ minfo[i].st = "none"
    /\ LET r == into_owned_method_sys_layout(Len(heap), n, m) IN
          /\ heap' = heap \o r.allocations
          /\ minfo' = [minfo EXCEPT ![i] = r.info]
    /\ UNCHANGED infoFrame

\* MethodInfo::free_owned_method_sys(info): every pointer it reclaims.
free_owned_method_sys_pointers(h, info) ==
    LET arguments == SubSeq(h[info.arguments].elems, 1, info.argument_count)
        default_arguments ==
            SubSeq(h[info.default_arguments].elems, 1, info.default_argument_count)
    IN << info.name >>
       \o free_owned_property_sys(info.return_value)
       \o Flatten([j \in 1..Len(arguments) |-> free_owned_property_sys(arguments[j])])
       \o [j \in 1..Len(default_arguments) |-> default_arguments[j].ptr]
       \o << info.arguments, info.default_arguments >>

free_owned_method_sys(i) ==
    /\ minfo[i].st = "owned"
    /\ heap' = Reclaim(heap, free_owned_method_sys_pointers(heap, minfo[i]))
    /\ minfo' = [minfo EXCEPT ![i].st = "freed"]
    /\ UNCHANGED infoFrame

InitInfo ==
    /\ heap = << >>
    /\ minfo = [i \in Infos |-> NoInfo]

NextInfo ==
    \/ \E i \in Infos, n \in ArgCounts, m \in ArgCounts : into_owned_method_sys(i, n, m)
    \/ \E i \in Infos : free_owned_method_sys(i)

(***************************************************************************)
(* Variant expressions: a host value converted into a Variant and back     *)
(* with the panicking strict conversion, and two Variants compared with    *)
(* == and partial_cmp through the engine's operator evaluation.            *)
(***************************************************************************)
\* The values x of host type T (an i8 holds only what fits it).
HostValues(T) ==
    IF T = "Variant"
        THEN Variants
        ELSE {Variant(T, val) : val \in
                 {p \in Payloads(ffi_variant_type(T)) : T = "i8" => p \in -128..127}}

\* ToGodot::to_variant(): the value under the wire tag of its type.
to_variant(T, x) ==
    IF T = "Variant" THEN x ELSE Variant(ffi_variant_type(T), x.val)

\* A Variant::from() that returns an empty variant.
from_value_nil(S, x) == Variant_nil

\* Variant::from(value): value.to_variant()
from_value(S, x) == to_variant(S, x)

\* T::from_variant(): the strict conversion, panicking on failure.
from_variant(T, variant) == unwrap_or_else_panic(ok(try_from_variant(T, variant)))

Operators == {"EQUAL", "LESS", "GREATER"}

\* The number a numeric payload stands for, in halves.
Halves(variant) == IF variant.ty = "FLOAT" THEN variant.val ELSE 2 * variant.val

\* The engine's variant_evaluate() for a comparison operator: defined between
\* values of one type (an ordering not for nil), between int and float, and
\* for EQUAL between nil and anything.
EngineEvaluate(op, a, b) ==
    LET numeric == a.ty \in {"INT", "FLOAT"} /\ b.ty \in {"INT", "FLOAT"}
        x == IF numeric THEN Halves(a) ELSE a.val
        y == IF numeric THEN Halves(b) ELSE b.val
        bool(p) == Some(Variant("BOOL", IF p THEN 1 ELSE 0))
    IN  IF (a.ty = "NIL" \/ b.ty = "NIL")
            THEN IF op = "EQUAL" THEN bool(a.ty = b.ty) ELSE None
        ELSE IF a.ty # b.ty /\ ~numeric
            THEN None
        ELSE CASE op = "EQUAL" -> bool(x = y)
               [] op = "LESS" -> bool(x < y)
               [] OTHER -> bool(x > y)

\* Option::is_some_and(|v| v.to::<bool>())
is_some_and_to_bool(option) ==
    IF option = None
        THEN Returned("false")
        ELSE LET b == from_variant("bool", option[1])
             IN  IF b.kind = "Panic" THEN Panic
                 ELSE Returned(IF b.value.val = 1 THEN "true" ELSE "false")

\* An == that unwraps the result of evaluate().
eq_unwrap(a, b) ==
    IF EngineEvaluate("EQUAL", a, b) = None
        THEN Panic
        ELSE is_some_and_to_bool(EngineEvaluate("EQUAL", a, b))

\* impl PartialEq for Variant: eq()
eq(a, b) == is_some_and_to_bool(EngineEvaluate("EQUAL", a, b))

\* impl PartialOrd for Variant: partial_cmp()
partial_cmp(a, b) ==
    LET equal == eq(a, b)
        less == is_some_and_to_bool(EngineEvaluate("LESS", a, b))
        greater == is_some_and_to_bool(EngineEvaluate("GREATER", a, b))
    IN  IF equal.kind = "Panic" THEN Panic
        ELSE IF equal.value = "true" THEN Returned("Equal")
        ELSE IF less.kind = "Panic" THEN Panic
        ELSE IF less.value = "true" THEN Returned("Less")
        ELSE IF greater.kind = "Panic" THEN Panic
        ELSE IF greater.value = "true" THEN Returned("Greater")
        ELSE Returned("None")

NoExpr == [op |-> "none", S |-> "Variant", T |-> "Variant",
           a |-> Variant_nil, b |-> Variant_nil, out |-> Panic]

\* let v = Variant::from(x), for x of host type S
Variant_from_value(S, x) ==
    /\ expr' = [op |-> "from", S |-> S, T |-> S, a |-> x, b |-> from_value(S, x),
                out |-> Returned(from_value(S, x))]
    /\ UNCHANGED exprFrame

\* v.to::<T>(), for the v made last
Variant_to(T) ==
    /\ expr.op = "from"
    /\ expr' = [expr EXCEPT !.op = "to", !.T = T, !.out = from_variant(T, expr.b)]
    /\ UNCHANGED exprFrame

\* a == b
Variant_eq(a, b) ==
    /\ expr' = [op |-> "eq", S |-> "Variant", T |-> "Variant", a |-> a, b |-> b,
                out |-> eq(a, b)]
    /\ UNCHANGED exprFrame

\* a.partial_cmp(&b)
Variant_partial_cmp(a, b) ==
    /\ expr' = [op |-> "partial_cmp", S |-> "Variant", T |-> "Variant", a |-> a, b |-> b,
                out |-> partial_cmp(a, b)]
    /\ UNCHANGED exprFrame

InitExpr == expr = NoExpr

NextExpr ==
    \/ \E S \in HostTypes : \E x \in HostValues(S) : Variant_from_value(S, x)
    \/ \E T \in HostTypes : Variant_to(T)
    \/ \E a \in Variants, b \in Variants : Variant_eq(a, b)
    \/ \E a \in Variants, b \in Variants : Variant_partial_cmp(a, b)

(***************************************************************************)
(* DictionaryFunctionalOps: any, all and reduce over a dictionary with a   *)
(* callable.  The dictionary is given by its entries in the engine's       *)
(* order; every invocation of the callable is recorded with its arguments. *)
(***************************************************************************)
FuncKeys == {"a", "b", "c"}

FuncDicts ==
    {<< >>} \cup
    {e \in UNION {[1..n -> FuncKeys \X (1..MaxValue)] : n \in 1..MaxEntries} :
        \A i, j \in 1..Len(e) : e[i][1] = e[j][1] => i = j}

Predicates == {"value_even", "value_positive", "key_is_b", "never"}

Reducers == {"reduce_sum", "reduce_count"}

\* callable.call(&[key, value]).booleanize()
Truthy(f, k, v) ==
    CASE f = "value_even" -> v % 2 = 0
      [] f = "value_positive" -> v > 0
      [] f = "key_is_b" -> k = "b"
      [] OTHER -> FALSE

\* callable.call(&[acc, key, value])
Reduced(f, a, k, v) == IF f = "reduce_sum" THEN a + v ELSE a + 1

\* The engine's Dictionary.any(callable) / all(callable), reached through
\* Variant::call: the callable is invoked entry by entry until the result is known.
RECURSIVE EngineAny(_, _, _)
EngineAny(e, f, calls) ==
    IF e = << >> THEN [result |-> FALSE, calls |-> calls]
    ELSE IF Truthy(f, Head(e)[1], Head(e)[2])
         THEN [result |-> TRUE, calls |-> Append(calls, Head(e))]
         ELSE EngineAny(Tail(e), f, Append(calls, Head(e)))

RECURSIVE EngineAll(_, _, _)
EngineAll(e, f, calls) ==
    IF e = << >> THEN [result |-> TRUE, calls |-> calls]
    ELSE IF ~Truthy(f, Head(e)[1], Head(e)[2])
         THEN [result |-> FALSE, calls |-> Append(calls, Head(e))]
         ELSE EngineAll(Tail(e), f, Append(calls, Head(e)))

\* An any() that evaluates the callable on every entry before it answers.
RECURSIVE any_exhaustive(_, _, _)
any_exhaustive(e, f, calls) ==
    IF e = << >> THEN [result |-> FALSE, calls |-> calls]
    ELSE LET rest == any_exhaustive(Tail(e), f, Append(calls, Head(e)))
         IN  [result |-> Truthy(f, Head(e)[1], Head(e)[2]) \/ rest.result,
              calls |-> rest.calls]

\* any(), built for versions before 4.3: the loop over iter_shared().
RECURSIVE any_before_4_3(_, _, _)
any_before_4_3(e, f, calls) ==
    IF e = << >> THEN [result |-> FALSE, calls |-> calls]
    ELSE IF Truthy(f, Head(e)[1], Head(e)[2])
         THEN [result |-> TRUE, calls |-> Append(calls, Head(e))]
         ELSE any_before_4_3(Tail(e), f, Append(calls, Head(e)))

\* all(), built for versions before 4.3.
RECURSIVE all_before_4_3(_, _, _)
all_before_4_3(e, f, calls) ==
    IF e = << >> THEN [result |-> TRUE, calls |-> calls]
    ELSE IF ~Truthy(f, Head(e)[1], Head(e)[2])
         THEN [result |-> FALSE, calls |-> Append(calls, Head(e))]
         ELSE all_before_4_3(Tail(e), f, Append(calls, Head(e)))

\* A reduce() that starts from the first value instead of `initial`.
RECURSIVE reduce_loop(_, _, _, _)
reduce_skips_initial(e, f, a, calls) ==
    IF e = << >> THEN [result |-> a, calls |-> calls]
    ELSE reduce_loop(Tail(e), f, Head(e)[2], calls)

\* reduce(): acc = initial; for (key, value) { acc = callable(acc, key, value) }
reduce_loop(e, f, a, calls) ==
    IF e = << >> THEN [result |-> a, calls |-> calls]
    ELSE reduce_loop(Tail(e), f, Reduced(f, a, Head(e)[1], Head(e)[2]),
                     Append(calls, <<a, Head(e)[1], Head(e)[2]>>))

reduce_outcome(e, f, initial) == reduce_loop(e, f, initial, << >>)

\* The operations keep no state between calls: a behaviour makes one call.
NoFunc == [op |-> "none", api |-> "none", entries |-> << >>, f |-> "never",
           initial |-> 0, result |-> 0, calls |-> << >>]

\* dict.functional_ops().any(&callable)
any(e, f) ==
    /\ fop = NoFunc
    /\ \E api \in Apis :
          LET r == IF api = "since_4_3" THEN EngineAny(e, f, << >>)
                   ELSE any_before_4_3(e, f, << >>)
          IN  fop' = [op |-> "any", api |-> api, entries |-> e, f |-> f, initial |-> 0,
                      result |-> r.result, calls |-> r.calls]
    /\ UNCHANGED funcFrame

\* dict.functional_ops().all(&callable)
all(e, f) ==
    /\ fop = NoFunc
    /\ \E api \in Apis :
          LET r == IF api = "since_4_3" THEN EngineAll(e, f, << >>)
                   ELSE all_before_4_3(e, f, << >>)
          IN  fop' = [op |-> "all", api |-> api, entries |-> e, f |-> f, initial |-> 0,
                      result |-> r.result, calls |-> r.calls]
    /\ UNCHANGED funcFrame

\* dict.functional_ops().reduce(&callable, &initial)
reduce(e, f, initial) ==
    /\ fop = NoFunc
    /\ LET r == reduce_outcome(e, f, initial)
       IN  fop' = [op |-> "reduce", api |-> "none", entries |-> e, f |-> f,
                   initial |-> initial, result |-> r.result, calls |-> r.calls]
    /\ UNCHANGED funcFrame

InitFunc == fop = NoFunc

NextFunc ==
    \/ \E e \in FuncDicts, f \in Predicates : any(e, f)
    \/ \E e \in FuncDicts, f \in Predicates : all(e, f)
    \/ \E e \in FuncDicts, f \in Reducers, initial \in 0..1 : reduce(e, f, initial)

vars == <<alloc, wrappers, issuer, created, freeLog, lastCall, rawFreed, quiet,
          safeguards, cells, handle, origin, ret, it, yielded, mutated,
          constructors, lockHolder, lookups, conv, heap, minfo, thr, held, res, object, acc,
          expr, fop>>

Init == InitRid /\ InitDict /\ InitConv /\ InitInfo /\ InitThreads /\ InitVal /\ InitObj /\ InitExpr /\ InitFunc

\* The owning wrappers never consult the safeguard level: one level stands for both.
InitRidProgram == Init /\ safeguards = "balanced"

SpecRid == InitRidProgram /\ [][NextRid]_vars
SpecDict == Init /\ [][NextDict]_vars
SpecDup == Init /\ [][NextDup]_vars
SpecIter == Init /\ [][NextIter]_vars
SpecCache == InitRidProgram /\ [][NextCache]_vars
SpecInfo == InitRidProgram /\ [][NextInfo]_vars
SpecThreads == InitRidProgram /\ [][NextThreads]_vars
SpecConv == InitRidProgram /\ [][NextConv]_vars
SpecAccess == InitRidProgram /\ [][NextAccess]_vars
SpecExpr == InitRidProgram /\ [][NextExpr]_vars
SpecMut == Init /\ [][NextMut]_vars
SpecFunc == InitRidProgram /\ [][NextFunc]_vars

(***************************************************************************)
(* Claims about the owned-RID wrappers (checked under SpecRid).            *)
(***************************************************************************)
Live(w) == wrappers[w].st = "Valid"
Dropped(w) == wrappers[w].st = "Released"

\* The service a wrapper's handle belongs to.
ServerOf(w) == IF wrappers[w].shape = "instance" THEN wrappers[w].server
               ELSE RenderingServer

\* C1: dropping a wrapper whose handle is valid issues exactly one release
\* call, for the handle its create call returned, to the service that issued
\* it (the singleton for singleton-owned wrappers, the stored instance for
\* instance-owned ones); a wrapper that is not dropped has issued none.
C1_ReleaseOnceToIssuer ==
    \A w \in Wrappers :
        /\ (Dropped(w) /\ is_valid(created[w])) =>
               freeLog[w] = << [server |-> issuer[w], rid |-> created[w]] >>
        /\ ~Dropped(w) => freeLog[w] = << >>

C1_Witness ==
    /\ \E w \in Wrappers : Dropped(w) /\ is_valid(wrappers[w].rid)
                             /\ wrappers[w].shape = "singleton"
    /\ \E w \in Wrappers : Dropped(w) /\ is_valid(wrappers[w].rid)
                             /\ wrappers[w].shape = "instance"
                             /\ wrappers[w].server \in RenderingDevices

\* C2: dropping a wrapper whose handle is the invalid (zero) handle issues no
\* release call to any service.
C2_InvalidNeverReleased ==
    \A w \in Wrappers :
        (Dropped(w) /\ ~is_valid(wrappers[w].rid)) => freeLog[w] = << >>

C2_Witness ==
    /\ \E w \in Wrappers : Dropped(w) /\ ~is_valid(wrappers[w].rid)
                             /\ wrappers[w].shape = "singleton"
    /\ \E w \in Wrappers : Dropped(w) /\ ~is_valid(wrappers[w].rid)
                             /\ wrappers[w].shape = "canvas_item"

\* C3 as stated: at every point of any execution each valid handle is held
\* by at most one live wrapper.
C3_UniqueOwner ==
    \A w1, w2 \in Wrappers :
        (/\ w1 # w2
         /\ Live(w1) /\ Live(w2)
         /\ is_valid(wrappers[w1].rid)
         /\ ServerOf(w1) = ServerOf(w2)) => wrappers[w1].rid # wrappers[w2].rid

\* C3 amended: as long as no handle held by a live wrapper has been released
\* by a raw free_rid call (RenderingDevice::free_rid_owned), each valid handle
\* is held by at most one live wrapper.
C3_UniqueOwnerUnlessRawFreed == ~rawFreed => C3_UniqueOwner

\* A handle that was released by a drop and issued again is held by one live
\* wrapper, next to another live wrapper of the same service.
C3_Witness ==
    /\ ~rawFreed
    /\ \E w1, w2, w3 \in Wrappers :
          /\ Dropped(w1) /\ Live(w2) /\ Live(w3) /\ w2 # w3
          /\ ServerOf(w1) = ServerOf(w2) /\ ServerOf(w2) = ServerOf(w3)
          /\ is_valid(wrappers[w1].rid) /\ wrappers[w1].rid = wrappers[w2].rid
          /\ is_valid(wrappers[w3].rid)

\* C4: a wrapper goes Uncreated -> Valid -> Released; the handle it holds
\* while Valid is the one its create call returned, and no step replaces it.
C4_NoReassignment ==
    [][\A w \in Wrappers :
          /\ wrappers[w].st = "Uncreated" =>
                \/ wrappers'[w] = wrappers[w]
                \/ /\ wrappers'[w].st = "Valid"
                   /\ wrappers'[w].rid = created'[w]
          /\ wrappers[w].st = "Valid" =>
                /\ wrappers'[w].st \in {"Valid", "Released"}
                /\ wrappers'[w].rid = wrappers[w].rid
                /\ wrappers[w].rid = created[w]
                /\ created'[w] = created[w]
          /\ wrappers[w].st = "Released" => wrappers'[w] = wrappers[w]]_vars

\* A forwarding method has just been called on a live wrapper that holds a
\* valid handle, and another wrapper has already been dropped.
C4_Witness ==
    /\ lastCall.op = "canvas_item_set_parent"
    /\ \E w \in Wrappers : Live(w) /\ wrappers[w].shape = "canvas_item"
                             /\ is_valid(wrappers[w].rid)
                             /\ lastCall.rid = wrappers[w].rid
    /\ \E w \in Wrappers : Dropped(w)

\* A completed set(k, v) through either variable, after `let c = d.clone()`.
SetThroughClone ==
    /\ origin = "clone"
    /\ ret.op = "set"
    /\ ~ret.panicked

\* C5 (as stated): for any dictionary d, after c = d.clone(), a set(k, v) through
\* either reference is observable through the other: d.get(k) == Some(v).
C5_CloneSharesData ==
    SetThroughClone => \A h \in Handles : get(h, ret.k) = Some(ret.v)

\* C5 (amended): for any dictionary d that is not read-only, after c = d.clone(),
\* a set(k, v) through either reference is observable through the other.
C5_CloneSharesWritableData ==
    (SetThroughClone /\ ~is_read_only("d")) =>
        \A h \in Handles : get(h, ret.k) = Some(ret.v)

C5_Witness ==
    /\ SetThroughClone
    /\ ret.h = "c"
    /\ ~is_read_only("d")
    /\ len("d") = 2
    /\ get("d", ret.k) = Some(ret.v)

\* C6: a set through the result of d.duplicate_shallow() leaves d
\* unchanged: d keeps its keys, their order and their values.
C6_DuplicateIsIndependent ==
    [][(origin' = "duplicate" /\ ret'.op = "set" /\ ret'.h = "c")
          => cells'[handle'["d"]] = cells[handle["d"]]]_vars

C6_Witness ==
    /\ origin = "duplicate"
    /\ ret.op = "set"
    /\ ret.h = "c"
    /\ ~ret.panicked
    /\ len("d") > 0
    /\ get("c", ret.k) = Some(ret.v)
    /\ get("d", ret.k) # Some(ret.v)

\* C7: removing entries through a second reference while an iterator is in
\* progress never makes next() or size_hint() panic, and size_hint() never
\* underflows: it stays between 0 and the current length.
C7_IterationSurvivesRemoval ==
    /\ (ret.op = "next" => ~ret.panicked)
    /\ IterLive =>
          /\ ~size_hint(it, IterEntries).panicked
          /\ size_hint(it, IterEntries).lower \in 0..Len(IterEntries)

C7_Witness ==
    /\ IterLive
    /\ mutated
    /\ it.next_idx > Len(IterEntries)
    /\ ret.op = "next"
    /\ ~ret.panicked
    /\ size_hint(it, IterEntries).lower = 0

\* The size_hint() of the claim: length minus elements yielded, saturating.
HintIsLenMinusYielded ==
    /\ size_hint(it, IterEntries).lower = saturating_sub(Len(IterEntries), yielded)
    /\ size_hint(it, IterEntries).upper = Some(saturating_sub(Len(IterEntries), yielded))

C9_GetAtContainsAgree ==
    \A h \in Handles : Bound(h) =>
        \A k \in Keys :
            /\ contains_key(h, k) = (get(h, k) # None)
            /\ contains_key(h, k) = EngineHas(Data(h).entries, k)
            /\ ~contains_key(h, k) => (get(h, k) = None /\ at(h, k).panicked)
            /\ contains_key(h, k) =>
                  (~at(h, k).panicked /\ get(h, k) = Some(at(h, k).value))

C9_Witness ==
    /\ contains_key("d", 1)
    /\ get("d", 1) = Some(NIL)
    /\ ~contains_key("d", NIL)
    /\ at("d", NIL).panicked

\* A completed insert(k, v).
InsertReturned == ret.op = "insert" /\ ~ret.panicked

\* What insert(k, v) promises: the previous value of k, and v stored at k.
InsertContract ==
    /\ ret.result = ret.before
    /\ ~at(ret.h, ret.k).panicked
    /\ at(ret.h, ret.k).value = ret.v

\* C10 (as stated): insert(k, v) returns Some(old) if k was present with value
\* old and None if k was absent, and in both cases d.at(k) == v afterwards.
C10_InsertReturnsPrevious == InsertReturned => InsertContract

\* C10 (amended): on a dictionary that is not read-only, insert(k, v) returns the
\* previous value of k (None if absent) and d.at(k) == v afterwards.
C10_InsertReturnsPreviousWritable ==
    (InsertReturned /\ ~is_read_only(ret.h)) => InsertContract

C10_Witness ==
    /\ InsertReturned
    /\ ~is_read_only(ret.h)
    /\ ret.before = Some(NIL)
    /\ ret.result = Some(NIL)
    /\ ret.v = 1
    /\ at(ret.h, ret.k).value = 1

\* A completed get_or_insert(k, default).
GetOrInsertReturned == ret.op = "get_or_insert" /\ ~ret.panicked

\* What get_or_insert(k, default) promises: an absent key now holds default and
\* default is returned; a present key keeps its value and that value is returned.
GetOrInsertContract ==
    /\ ret.before = None => (ret.result = Some(ret.v) /\ get(ret.h, ret.k) = Some(ret.v))
    /\ ret.before # None => (ret.result = ret.before /\ get(ret.h, ret.k) = ret.before)

\* C11 (as stated): get_or_insert(k, default) on an absent key inserts default
\* and returns it; a later get_or_insert(k, other) returns the value already
\* stored and does not overwrite it.
C11_GetOrInsertKeepsStored == GetOrInsertReturned => GetOrInsertContract

\* C11 (amended): on a dictionary that is not read-only, get_or_insert(k, default)
\* on an absent key inserts default and returns it; a later get_or_insert(k, other)
\* returns the value already stored and does not overwrite it.
C11_GetOrInsertKeepsStoredWritable ==
    (GetOrInsertReturned /\ ~is_read_only(ret.h)) => GetOrInsertContract

C11_Witness ==
    /\ GetOrInsertReturned
    /\ ~is_read_only(ret.h)
    /\ ret.before = Some(1)
    /\ ret.v = NIL
    /\ ret.result = Some(1)
    /\ get(ret.h, ret.k) = Some(1)

\* C12: with nothing else touching the dictionary in between, the native
\* get_or_add path and the polyfill path of get_or_insert give the same return
\* value and the same dictionary contents, for every dictionary, key and default.
C12_PolyfillEqualsNative ==
    \A h \in Handles : Bound(h) =>
        \A k \in Keys, default \in Values :
            get_or_insert_polyfill(h, k, default) = get_or_insert_native(h, k, default)

C12_Witness ==
    /\ len("d") = 1
    /\ is_read_only("d")
    /\ \E k \in Keys : contains_key("d", k) /\ get_or_nil("d", k) = NIL
    /\ ret.op = "get_or_insert"

\* C13: the from-variant constructor of a destination type is looked up at the
\* engine on first use and cached: under every interleaving of concurrent
\* relaxed conversions the lookup for a type is made at most once, a conversion
\* that finds the entry uses the cached pointer, and a cached entry is never
\* cleared or replaced.
C13_ConstructorCachedOnce ==
    /\ [](\A tag \in VariantTypes :
             /\ lookups[tag] <= 1
             /\ constructors[tag] # None => lookups[tag] = 1)
    /\ [](\A t \in ConvThreads :
             conv[t].pc = "returned" =>
                 /\ conv[t].converter # None
                 /\ conv[t].converter = constructors[conv[t].to])
    /\ [][\A tag \in VariantTypes :
             constructors[tag] # None => constructors'[tag] = constructors[tag]]_vars

C13_Witness ==
    /\ \E tag \in VariantTypes : constructors[tag] # None /\ lookups[tag] = 1
    /\ \E t \in ConvThreads :
          /\ conv[t].pc = "returned"
          /\ conv[t].found = None
          /\ conv[t].converter = constructors[conv[t].to]
    /\ \E t \in ConvThreads : conv[t].pc = "locking"

\* The allocations leaked by the into_owned_method_sys() call that made struct i.
Leaked(i) == minfo[i].first..minfo[i].last

\* C14: one free_owned_method_sys() on the struct returned by
\* into_owned_method_sys() reclaims every allocation that call leaked (the method
\* name, the strings of the return value and of each argument, each default
\* argument's variant and the two slices) exactly once: none twice, none left.
C14_FreeReclaimsEachOnce ==
    \A i \in Infos :
        /\ minfo[i].st = "owned" => \A p \in Leaked(i) : heap[p].frees = 0
        /\ minfo[i].st = "freed" => \A p \in Leaked(i) : heap[p].frees = 1
        /\ minfo[i].st # "none" =>
              Cardinality(Leaked(i)) =
                  3 + 2 * minfo[i].argument_count + minfo[i].default_argument_count + 2

C14_Witness ==
    \E i \in Infos :
        /\ minfo[i].st = "freed"
        /\ minfo[i].argument_count = 2
        /\ minfo[i].default_argument_count = 1
        /\ \A p \in Leaked(i) : heap[p].frees = 1
        /\ \E j \in Infos : minfo[j].st = "owned"

\* C15: after an owning wrapper is created and dropped, with no other
\* allocation or release at its service in between, the next wrapper of the
\* same kind created from the same service holds the same handle value: the
\* release reached the service before the second create.
C15_HandleRecycledAfterDrop ==
    [][\A w \in Wrappers :
          (/\ quiet = w
           /\ wrappers[w].st = "Released"
           /\ CanConstruct
           /\ wrappers'[NextWrapper].st = "Valid"
           /\ wrappers'[NextWrapper].shape = wrappers[w].shape
           /\ issuer'[NextWrapper] = issuer[w]
           /\ is_valid(created'[NextWrapper]))
          => created'[NextWrapper] = created[w]]_vars

C15_Witness ==
    \E w, v \in Wrappers :
        /\ w < v
        /\ wrappers[w].st = "Released"
        /\ wrappers[v].st = "Valid"
        /\ quiet = v
        /\ wrappers[v].shape = "singleton" /\ wrappers[w].shape = "singleton"
        /\ is_valid(created[w])
        /\ created[v] = created[w]
        /\ freeLog[w] = << [server |-> RenderingServer, rid |-> created[w]] >>
        /\ \E u \in Wrappers : u < w /\ wrappers[u].st = "Valid" /\ is_valid(wrappers[u].rid)

PanicsIffTryFails(outcome, tried) ==
    /\ outcome.kind = "Panic" <=> tried = None
    /\ tried # None => outcome = Returned(tried[1])

C17_PanickingMatchesTry ==
    /\ acc.op = "get_as" => PanicsIffTryFails(acc.out, try_get_as_outcome(acc.T, acc.name))
    /\ acc.op = "get_meta_as" =>
          PanicsIffTryFails(acc.out, try_get_meta_as_outcome(acc.T, acc.name))
    /\ acc.op = "call_as" =>
          PanicsIffTryFails(acc.out, try_call_as_outcome(acc.T, acc.method, acc.name))
    /\ acc.op = "get_tree_as" => PanicsIffTryFails(acc.out, try_get_tree_as_outcome(acc.T))

\* C18: when the held type tag equals the concrete wire type of T,
\* try_to_relaxed::<T>() returns exactly what the strict try_to::<T>() returns
\* for the same variant: the same value or the same error.
C18_RelaxedEqualsStrictOnSameTag ==
    (/\ res.op = "try_to_relaxed"
     /\ ffi_variant_type(res.T) = res.from.ty)
    => res.out = try_from_variant(res.T, res.from)

C18_Witness ==
    /\ res.op = "try_to_relaxed"
    /\ res.T = "i8"
    /\ res.from = Variant("INT", 200)
    /\ res.out.kind = "BadFfi"

\* C19: for a concrete target whose tag differs from the held tag,
\* try_to_relaxed fails with BadType{expected = target tag, actual = held tag}
\* whenever the target tag is NIL or the can-convert predicate says no.
C19_RelaxedBadType ==
    (/\ res.op = "try_to_relaxed"
     /\ ffi_variant_type(res.T) # "Variant"
     /\ ffi_variant_type(res.T) # res.from.ty
     /\ \/ ffi_variant_type(res.T) = "NIL"
        \/ ~can_convert_godot_strict(res.from.ty, ffi_variant_type(res.T)))
    => /\ res.out.kind = "BadType"
       /\ res.out.expected = ffi_variant_type(res.T)
       /\ res.out.actual = res.from.ty

C19_Witness ==
    /\ res.op = "try_to_relaxed"
    /\ res.T = "unit"
    /\ res.from.ty = "INT"
    /\ can_convert_godot_strict(res.from.ty, "NIL")
    /\ res.out.kind = "BadType"

\* C20: for a variant holding the integer 1, strict try_to::<bool>() fails,
\* try_to_relaxed::<bool>() succeeds with true, and try_to_relaxed to a string
\* type fails.
C20_IntOneToBool ==
    res.from = Variant("INT", 1) =>
        /\ (res.op = "try_to" /\ res.T = "bool") => res.out.kind # "Ok"
        /\ (res.op = "try_to_relaxed" /\ res.T = "bool") => res.out = Ok(Variant("bool", 1))
        /\ (res.op = "try_to_relaxed" /\ res.T = "GString") => res.out.kind # "Ok"

C20_Witness ==
    /\ res.from = Variant("INT", 1)
    /\ res.op = "try_to_relaxed"
    /\ res.T = "bool"
    /\ res.out.kind = "Ok"

EvaluatesTrue(op, a, b) == EngineEvaluate(op, a, b) = Some(Variant("BOOL", 1))

C22_CompareNeverFails ==
    /\ expr.op \in {"eq", "partial_cmp"} => expr.out.kind = "Return"
    /\ (expr.op = "eq" /\ EngineEvaluate("EQUAL", expr.a, expr.b) = None)
          => expr.out = Returned("false")
    /\ (/\ expr.op = "partial_cmp"
        /\ \A op \in Operators : ~EvaluatesTrue(op, expr.a, expr.b))
          => expr.out = Returned("None")

C22_Witness ==
    /\ expr.op = "partial_cmp"
    /\ expr.a.ty = "INT" /\ expr.b.ty = "STRING"
    /\ \A op \in Operators : EngineEvaluate(op, expr.a, expr.b) = None
    /\ expr.out = Returned("None")

\* C23: once a dictionary is read-only, no mutating operation through that
\* handle (set, insert, remove, clear, get_or_insert, extend_dictionary,
\* Extend::extend) changes its entries: the call panics or leaves them as they are.
MutatesThrough(h) ==
    \/ \E k \in Keys, v \in Values : set(h, k, v) \/ insert(h, k, v) \/ get_or_insert(h, k, v)
    \/ \E k \in Keys : remove(h, k)
    \/ clear(h)
    \/ \E other \in OtherDicts, overwrite \in BOOLEAN : extend_dictionary(h, other, overwrite)
    \/ \E pairs \in PairSeqs : extend(h, pairs)

C25_FindKeyByValue ==
    ret.op = "find_key_by_value" =>
        /\ ret.result = None <=>
              ~\E i \in 1..len(ret.h) : Data(ret.h).entries[i][2] = ret.v
        /\ ret.result # None => get(ret.h, ret.result[1]) = Some(ret.v)

\* C28: a dictionary iterator is fused: once next() has returned None, every
\* later next() on the same iterator returns None, whatever is done to the
\* dictionary through other references in between.
Ended == IterLive /\ ~it.is_first /\ it.last_key = None

C28_IteratorFused ==
    [][/\ (next /\ ret'.result = None) => Ended'
       /\ (Ended /\ IterLive') => Ended'
       /\ (Ended /\ next) => ret'.result = None]_vars

C28_Witness ==
    /\ Ended
    /\ ret.op = "next" /\ ret.result = None
    /\ mutated
    /\ yielded < Len(IterEntries)

\* C29: every pair yielded by a pair-yielding iterator (Iter, IntoIter) has a
\* key that is in the dictionary at the moment of the yield, with the value
\* stored for it: no pair is made up for a removed key.
C29_YieldedKeyPresent ==
    (/\ ret.op = "next" /\ ret.result # None
     /\ IterLive /\ it.kind \in {"Iter", "IntoIter"})
    => /\ EngineHas(IterEntries, ret.k)
       /\ ret.v = EngineGet(IterEntries, ret.k, NIL)

C29_Witness ==
    /\ ret.op = "next" /\ ret.result # None
    /\ it.kind = "IntoIter"
    /\ mutated
    /\ yielded = 2

\* C30: while the dictionary is not changed during the iteration, an iterator
\* yields every entry exactly once, in the engine's order, and returns None
\* after exactly len() items.
C30_UnmodifiedIterationComplete ==
    (ret.op = "next" /\ IterLive /\ ~mutated /\ ~ret.panicked)
    => /\ yielded <= Len(IterEntries)
       /\ ret.result # None => ret.k = IterEntries[yielded][1]
       /\ (ret.result # None /\ it.kind # "Keys") => ret.v = IterEntries[yielded][2]
       /\ ret.result = None => yielded = Len(IterEntries)

C30_Witness ==
    /\ ret.op = "next" /\ ret.result = None
    /\ IterLive /\ ~mutated
    /\ yielded = 2
    /\ Len(IterEntries) = 2

\* C26: any and all short-circuit: any stops invoking the callable at the first
\* entry for which it is truthy and returns true, all stops at the first entry
\* for which it is falsy and returns false; the callable is not invoked for any
\* later entry.
FirstIndex(e, f, want) ==
    IF \E i \in 1..Len(e) : Truthy(f, e[i][1], e[i][2]) = want
    THEN CHOOSE i \in 1..Len(e) :
            /\ Truthy(f, e[i][1], e[i][2]) = want
            /\ \A j \in 1..(i - 1) : Truthy(f, e[j][1], e[j][2]) # want
    ELSE 0

ShortCircuits(want) ==
    LET i == FirstIndex(fop.entries, fop.f, want)
    IN  IF i = 0
        THEN fop.result = ~want /\ fop.calls = fop.entries
        ELSE fop.result = want /\ fop.calls = SubSeq(fop.entries, 1, i)

C27_ReduceFoldsInOrder ==
    fop.op = "reduce" =>
        LET n == Len(fop.entries)
            Acc(i) == IF i = 0 THEN fop.initial
                      ELSE Reduced(fop.f, fop.calls[i][1], fop.calls[i][2], fop.calls[i][3])
        IN  /\ Len(fop.calls) = n
            /\ \A i \in 1..n :
                  fop.calls[i] = <<Acc(i - 1), fop.entries[i][1], fop.entries[i][2]>>
            /\ fop.result = Acc(n)

C27_Witness ==
    /\ fop.op = "reduce"
    /\ fop.f = "reduce_sum"
    /\ fop.initial = 0
    /\ fop.entries = <<<<"a", 1>>, <<"b", 2>>, <<"c", 3>>>>
    /\ fop.result = 6

====
